---- MODULE Spec2Model ----
(***************************************************************************)
(* LaSTy Language Smart Trainer: the word store (database.py), the         *)
(* progress / schedule update, the due-word selection and the training     *)
(* session engine (training_engine.py), as a state machine.                *)
(*                                                                         *)
(* Dates are day numbers.  A date stored in the word_pairs table is the    *)
(* ISO string of the day, modelled as the record [iso |-> day]; Python's   *)
(* None is the record None.  Rows of a table are kept in insertion order   *)
(* and word_id is the position of the row (uuid4 values are fresh, their   *)
(* names do not matter).  A query without ORDER BY returns the matching    *)
(* rows in an unspecified order.                                           *)
(***************************************************************************)
EXTENDS Integers, Sequences, FiniteSets, TLC

VARIABLES
    today,              \* datetime.now().date(), as a day number
    word_pairs,         \* the word_pairs table: sequence of rows
    errors,             \* the errors table: sequence of rows
    training_sessions,  \* st.session_state.training_sessions: id -> session_data
    scored,             \* number of answers scored so far
    ret                 \* the last call and what it returned

vars == <<today, word_pairs, errors, training_sessions, scored, ret>>

----------------------------------------------------------------------------
(* Bounds of the model *)

MaxDay == 2         \* the calendar stops at this day
MaxWords == 1       \* rows of a word_pairs table that imports fill or sessions start on
MaxRows == 2        \* rows of a word_pairs table given at the start

Users == {"u1", "u2"}
Languages == {"Deutsch", "English"}
Bools == {TRUE, FALSE}

None == [none |-> TRUE]

----------------------------------------------------------------------------
(* config.py *)

TRAINING_SESSION_LIMITS == {1, 3, 5, 10, 20}
PROGRESS_INCREMENT == 20
PROGRESS_DECREMENT == 40

\* dict literal, iterated in insertion order
EBINGHAUS_INTERVALS ==
    << [lo |-> 0,   hi |-> 19,  days |-> 0],
       [lo |-> 20,  hi |-> 39,  days |-> 1],
       [lo |-> 40,  hi |-> 59,  days |-> 3],
       [lo |-> 60,  hi |-> 79,  days |-> 7],
       [lo |-> 80,  hi |-> 99,  days |-> 14],
       [lo |-> 100, hi |-> 100, days |-> 45] >>

TASK_PROBABILITIES ==
    << [lo |-> 0,  hi |-> 41,  types |-> {"multiple_choice", "fill_blank", "translation"}],
       [lo |-> 42, hi |-> 70,  types |-> {"multiple_choice", "fill_blank", "translation"}],
       [lo |-> 71, hi |-> 100, types |-> {"multiple_choice", "fill_blank", "translation"}] >>

----------------------------------------------------------------------------
(* Helpers *)

Min(a, b) == IF a <= b THEN a ELSE b
Max(a, b) == IF a >= b THEN a ELSE b

\* date.isoformat() and datetime.fromisoformat(s).date()
IsoFormat(d) == [iso |-> d]
FromIsoFormat(s) == s.iso

\* range of a sequence
Range(s) == {s[i] : i \in 1..Len(s)}

\* random.sample(population, k): k elements at distinct positions, any order.
\* The population is a query result, itself in unspecified order, so only
\* the set of its rows matters.
RandomSample(population, k) ==
    {s \in [1..k -> population] : \A i, j \in 1..k : i # j => s[i] # s[j]}

\* result.data of a select: the matching rows in some order
Orderings(rows) == RandomSample(rows, Cardinality(rows))

----------------------------------------------------------------------------
(* Texts: a str is the sequence of its characters *)

MaxAnswerLen == 3   \* characters of a submitted answer

Alphabet == {"a", "b", "A", " "}

Texts(n) == UNION {[1..k -> Alphabet] : k \in 0..n}

\* str.lower()
Lower(s) == [i \in 1..Len(s) |-> IF s[i] = "A" THEN "a" ELSE s[i]]

\* str.strip()
RECURSIVE LStrip(_)
LStrip(s) == IF s # <<>> /\ Head(s) = " " THEN LStrip(Tail(s)) ELSE s

RECURSIVE RStrip(_)
RStrip(s) ==
    IF s # <<>> /\ s[Len(s)] = " " THEN RStrip(SubSeq(s, 1, Len(s) - 1)) ELSE s

Strip(s) == RStrip(LStrip(s))

\* t in s
Contains(s, t) ==
    \E i \in 0..(Len(s) - Len(t)) : SubSeq(s, i + 1, i + Len(t)) = t

\* dict.get(key, default)
JsonGet(obj, key, default) == IF key \in DOMAIN obj THEN obj[key] ELSE default

\* len(s.split())
WordCount(s) ==
    Cardinality({i \in 1..Len(s) : s[i] # " " /\ (i = 1 \/ s[i - 1] = " ")})

----------------------------------------------------------------------------
(* database.py: update_word_progress *)

\* mutant: the upper end of a bracket excluded
IntervalDays_OpenBracket(progress) ==
    LET hits == {i \in 1..Len(EBINGHAUS_INTERVALS) :
                    /\ EBINGHAUS_INTERVALS[i].lo <= progress
                    /\ progress < EBINGHAUS_INTERVALS[i].hi}
    IN  IF hits = {} THEN 1
        ELSE EBINGHAUS_INTERVALS[CHOOSE i \in hits : \A j \in hits : i <= j].days

\* line 261: the brackets of the interval table that contain the progress
IntervalBrackets(progress) ==
    {i \in 1..Len(EBINGHAUS_INTERVALS) :
        /\ EBINGHAUS_INTERVALS[i].lo <= progress
        /\ progress <= EBINGHAUS_INTERVALS[i].hi}

\* lines 259-263: the first bracket that contains the progress, default 1
IntervalDays(progress) ==
    LET hits == IntervalBrackets(progress)
    IN  IF hits = {} THEN 1
        ELSE EBINGHAUS_INTERVALS[CHOOSE i \in hits : \A j \in hits : i <= j].days

\* mutants: the clamp at 100 forgotten; the Correct test made before the
\* morphological / synonym tests; an Incorrect answer costing 10 points
NewProgress_SmallPenalty(word, is_correct, is_morphological_error, is_synonym) ==
    IF is_morphological_error THEN word.progress
    ELSE IF is_synonym THEN word.progress
    ELSE IF is_correct THEN Min(100, word.progress + PROGRESS_INCREMENT)
    ELSE Max(0, word.progress - 10)

NewProgress_NoClamp(word, is_correct, is_morphological_error, is_synonym) ==
    IF is_morphological_error THEN word.progress
    ELSE IF is_synonym THEN word.progress
    ELSE IF is_correct THEN word.progress + PROGRESS_INCREMENT
    ELSE Max(0, word.progress - PROGRESS_DECREMENT)

NewProgress_CorrectFirst(word, is_correct, is_morphological_error, is_synonym) ==
    IF is_correct THEN Min(100, word.progress + PROGRESS_INCREMENT)
    ELSE IF is_morphological_error THEN word.progress
    ELSE IF is_synonym THEN word.progress
    ELSE Max(0, word.progress - PROGRESS_DECREMENT)

\* lines 236-268: new progress and new next training date (a day number)
NewProgress(word, is_correct, is_morphological_error, is_synonym) ==
    IF is_morphological_error THEN word.progress
    ELSE IF is_synonym THEN word.progress
    ELSE IF is_correct THEN Min(100, word.progress + PROGRESS_INCREMENT)
    ELSE Max(0, word.progress - PROGRESS_DECREMENT)

\* mutant: the interval of a Correct answer looked up with the old progress
NewNextDate_OldProgress(word, is_correct, is_morphological_error, is_synonym) ==
    IF is_morphological_error THEN FromIsoFormat(word.next_training_date)
    ELSE IF is_synonym THEN FromIsoFormat(word.next_training_date)
    ELSE IF is_correct THEN today + IntervalDays(word.progress)
    ELSE today

\* mutant: the interval bracket applied after an Incorrect answer as well
NewNextDate_BracketAlways(word, is_correct, is_morphological_error, is_synonym) ==
    IF is_morphological_error THEN FromIsoFormat(word.next_training_date)
    ELSE IF is_synonym THEN FromIsoFormat(word.next_training_date)
    ELSE today + IntervalDays(NewProgress(word, is_correct,
                                          is_morphological_error, is_synonym))

NewNextDate(word, is_correct, is_morphological_error, is_synonym) ==
    IF is_morphological_error THEN FromIsoFormat(word.next_training_date)
    ELSE IF is_synonym THEN FromIsoFormat(word.next_training_date)
    ELSE IF is_correct
         THEN today + IntervalDays(NewProgress(word, is_correct,
                                               is_morphological_error, is_synonym))
    ELSE today

\* lines 271-277: the row after the update
UpdatedRow(word, is_correct, is_morphological_error, is_synonym) ==
    [word EXCEPT
        !.progress = NewProgress(word, is_correct, is_morphological_error, is_synonym),
        !.last_training_date = IsoFormat(today),
        !.next_training_date =
            IsoFormat(NewNextDate(word, is_correct, is_morphological_error, is_synonym))]

\* rows with this word_id (line 228)
RowsWithId(word_id) == {i \in 1..Len(word_pairs) : word_pairs[i].word_id = word_id}

UpdateWordProgress(word_id, is_correct, is_morphological_error, is_synonym) ==
    /\ IF RowsWithId(word_id) = {}
       THEN /\ ret' = [op |-> "update_word_progress", word_id |-> word_id,
                       success |-> FALSE, error |-> "Word not found"]
            /\ UNCHANGED word_pairs
       ELSE LET i == CHOOSE i \in RowsWithId(word_id) : TRUE
                word == word_pairs[i]
                row == UpdatedRow(word, is_correct, is_morphological_error, is_synonym)
            IN  /\ word_pairs' = [word_pairs EXCEPT ![i] = row]
                /\ ret' = [op |-> "update_word_progress", word_id |-> word_id,
                           is_correct |-> is_correct,
                           is_morphological_error |-> is_morphological_error,
                           is_synonym |-> is_synonym,
                           word |-> word,
                           success |-> TRUE,
                           new_progress |-> row.progress,
                           next_training_date |-> FromIsoFormat(row.next_training_date)]
    /\ UNCHANGED <<today, errors, training_sessions, scored>>

----------------------------------------------------------------------------
(* database.py: import_word_pairs, one pair per call *)

\* the pairs (native text, target text) of an import file
ImportPairs == { << <<"b">>, <<"a", "b">> >> }

\* lines 103-106: the rows the duplicate check reads, selected with the
\* column word_id alone
ExistingWords(user_id, target_language) ==
    {[word_id |-> word_pairs[i].word_id] :
        i \in {j \in 1..Len(word_pairs) :
                  /\ word_pairs[j].user_id = user_id
                  /\ word_pairs[j].language = target_language}}

\* lines 108-114: a row read for the check has the texts of this pair
IsDuplicate(user_id, pair, target_language) ==
    \E existing_word \in ExistingWords(user_id, target_language) :
        /\ Lower(JsonGet(existing_word, "native_word", <<>>)) = Lower(Strip(pair[1]))
        /\ Lower(JsonGet(existing_word, "target_word", <<>>)) = Lower(Strip(pair[2]))

\* lines 95-148, for a list of one pair: counted as a duplicate, inserted, or
\* the insert fails and the pair is reported as an error
ImportWordPair(user_id, pair, target_language) ==
    LET call == [op |-> "import_word_pairs", user_id |-> user_id,
                 pair |-> pair, language |-> target_language]
    IN
    IF IsDuplicate(user_id, pair, target_language)
    THEN /\ ret' = call @@ [imported |-> 0, duplicates |-> 1, errors |-> 0]
         /\ UNCHANGED <<today, word_pairs, errors, training_sessions, scored>>
    ELSE \/ /\ word_pairs' = Append(word_pairs,
                    [word_id |-> Len(word_pairs) + 1,
                     user_id |-> user_id,
                     native_word |-> Strip(pair[1]),
                     target_word |-> Strip(pair[2]),
                     progress |-> 0,
                     last_training_date |-> None,
                     next_training_date |-> IsoFormat(today),
                     language |-> target_language])
            /\ ret' = call @@ [imported |-> 1, duplicates |-> 0, errors |-> 0]
            /\ UNCHANGED <<today, errors, training_sessions, scored>>
         \/ /\ ret' = call @@ [imported |-> 0, duplicates |-> 0, errors |-> 1]
            /\ UNCHANGED <<today, word_pairs, errors, training_sessions, scored>>

----------------------------------------------------------------------------
(* database.py: _execute_with_retry *)

\* line 27: max_retries=3, delay=1.0
MAX_RETRIES == 3
RETRY_DELAY == 1

\* line 32: the exceptions that are retried; httpx.ReadTimeout is a subclass
\* of httpx.TimeoutException
NetworkErrors ==
    {[exception |-> "httpx.ReadError"], [exception |-> "httpx.ConnectError"],
     [exception |-> "httpx.TimeoutException"], [exception |-> "httpx.ReadTimeout"]}

\* what one call of operation() can end with: a response, a network error,
\* or another exception
OperationOutcomes ==
    {[data |-> <<>>], [data |-> <<1>>]}
    \cup NetworkErrors
    \cup {[exception |-> "httpx.WriteError"], [exception |-> "APIError"]}

\* line 27: the call, before the first pass of the loop; outcomes records what
\* operation() ended with at each attempt so far
ExecuteWithRetry ==
    /\ IF ret.op = "_execute_with_retry" THEN ret.status # "running" ELSE TRUE
    /\ ret' = [op |-> "_execute_with_retry", status |-> "running", attempt |-> 0,
               outcomes |-> <<>>, slept |-> 0, result |-> None]
    /\ UNCHANGED <<today, word_pairs, errors, training_sessions, scored>>

\* mutant: the last attempt recognised one pass too late, so that the loop
\* ends after the third network error and the function returns None
ExecuteAttempt_Swallows(outcome) ==
    /\ ret.op = "_execute_with_retry"
    /\ ret.status = "running"
    /\ ret.attempt < MAX_RETRIES
    /\ LET tried == [ret EXCEPT !.outcomes = Append(@, outcome)]
       IN  ret' =
             IF "data" \in DOMAIN outcome
             THEN [tried EXCEPT !.status = "returned", !.result = outcome]
             ELSE IF outcome \in NetworkErrors
             THEN IF ret.attempt = MAX_RETRIES
                  THEN [tried EXCEPT !.status = "raised",
                            !.result = [exception |-> "Exception",
                                        attempts |-> MAX_RETRIES, cause |-> outcome]]
                  ELSE IF ret.attempt + 1 = MAX_RETRIES
                  THEN [tried EXCEPT !.status = "returned", !.result = None]
                  ELSE [tried EXCEPT !.attempt = @ + 1,
                            !.slept = @ + RETRY_DELAY * (ret.attempt + 1)]
             ELSE [tried EXCEPT !.status = "raised", !.result = outcome]
    /\ UNCHANGED <<today, word_pairs, errors, training_sessions, scored>>

\* lines 29-39: one pass of the loop, operation() ending with outcome
ExecuteAttempt(outcome) ==
    /\ ret.op = "_execute_with_retry"
    /\ ret.status = "running"
    /\ ret.attempt < MAX_RETRIES
    /\ LET tried == [ret EXCEPT !.outcomes = Append(@, outcome)]
       IN  ret' =
             IF "data" \in DOMAIN outcome
             THEN [tried EXCEPT !.status = "returned", !.result = outcome]
             ELSE IF outcome \in NetworkErrors
             THEN IF ret.attempt = MAX_RETRIES - 1
                  THEN [tried EXCEPT !.status = "raised",
                            !.result = [exception |-> "Exception",
                                        attempts |-> MAX_RETRIES, cause |-> outcome]]
                  ELSE [tried EXCEPT !.attempt = @ + 1,
                            !.slept = @ + RETRY_DELAY * (ret.attempt + 1)]
             ELSE [tried EXCEPT !.status = "raised", !.result = outcome]
    /\ UNCHANGED <<today, word_pairs, errors, training_sessions, scored>>

----------------------------------------------------------------------------
(* database.py: get_words_for_training *)

Matching(user_id, language) ==
    {word_pairs[i] : i \in {j \in 1..Len(word_pairs) :
                               /\ word_pairs[j].user_id = user_id
                               /\ word_pairs[j].language = language}}

\* lines 174-177: .lte("next_training_date", today)
OverdueWords(user_id, language) ==
    {w \in Matching(user_id, language) : FromIsoFormat(w.next_training_date) <= today}

\* lines 190-193: .neq("next_training_date", today)
OtherWords(user_id, language) ==
    {w \in Matching(user_id, language) : FromIsoFormat(w.next_training_date) # today}

\* lines 208-211
AllWords(user_id, language) == Matching(user_id, language)

\* mutant: the fill takes up to `limit` words instead of the remaining places
WordsForTraining_FillLimit(user_id, language, limit) ==
    LET overdue == OverdueWords(user_id, language)
        other == OtherWords(user_id, language)
        all == AllWords(user_id, language)
    IN  IF overdue # {}
        THEN IF Cardinality(overdue) >= limit
             THEN RandomSample(overdue, limit)
             ELSE IF other # {}
                  THEN {o \o a : o \in Orderings(overdue),
                                 a \in RandomSample(other,
                                          Min(limit, Cardinality(other)))}
                  ELSE Orderings(overdue)
        ELSE IF all # {}
             THEN RandomSample(all, Min(limit, Cardinality(all)))
             ELSE { <<>> }

\* mutant: with enough overdue words the sample is drawn from all words
WordsForTraining_SampleAll(user_id, language, limit) ==
    LET overdue == OverdueWords(user_id, language)
        other == OtherWords(user_id, language)
        all == AllWords(user_id, language)
    IN  IF overdue # {}
        THEN IF Cardinality(overdue) >= limit
             THEN RandomSample(all, limit)
             ELSE IF other # {}
                  THEN {o \o a : o \in Orderings(overdue),
                                 a \in RandomSample(other,
                                          Min(limit - Cardinality(overdue),
                                              Cardinality(other)))}
                  ELSE Orderings(overdue)
        ELSE IF all # {}
             THEN RandomSample(all, Min(limit, Cardinality(all)))
             ELSE { <<>> }

\* mutant: no fallback to all words when none is overdue
WordsForTraining_NoFallback(user_id, language, limit) ==
    LET overdue == OverdueWords(user_id, language)
        other == OtherWords(user_id, language)
    IN  IF overdue # {}
        THEN IF Cardinality(overdue) >= limit
             THEN RandomSample(overdue, limit)
             ELSE IF other # {}
                  THEN {o \o a : o \in Orderings(overdue),
                                 a \in RandomSample(other,
                                          Min(limit - Cardinality(overdue),
                                              Cardinality(other)))}
                  ELSE Orderings(overdue)
        ELSE { <<>> }

\* lines 181-219: the lists the call can return
WordsForTraining(user_id, language, limit) ==
    LET overdue == OverdueWords(user_id, language)
        other == OtherWords(user_id, language)
        all == AllWords(user_id, language)
    IN  IF overdue # {}
        THEN IF Cardinality(overdue) >= limit
             THEN RandomSample(overdue, limit)
             ELSE IF other # {}
                  THEN {o \o a : o \in Orderings(overdue),
                                 a \in RandomSample(other,
                                          Min(limit - Cardinality(overdue),
                                              Cardinality(other)))}
                  ELSE Orderings(overdue)
        ELSE IF all # {}
             THEN RandomSample(all, Min(limit, Cardinality(all)))
             ELSE { <<>> }

GetWordsForTraining(user_id, language, limit) ==
    /\ \E words \in WordsForTraining(user_id, language, limit) :
          ret' = [op |-> "get_words_for_training", user_id |-> user_id,
                  language |-> language, limit |-> limit, words |-> words]
    /\ UNCHANGED <<today, word_pairs, errors, training_sessions, scored>>

----------------------------------------------------------------------------
(* Word tables the program can have built by day MaxDay - 1: each row was  *)
(* imported on some day up to then and never practised, or was imported    *)
(* and answered correctly once on that day.                                *)

RowOwners == { <<"u1", "Deutsch">>, <<"u1", "English">>, <<"u2", "Deutsch">> }

ImportedRow(owner, day) ==
    [user_id |-> owner[1], native_word |-> <<"b">>, target_word |-> <<"a", "b">>,
     progress |-> 0, last_training_date |-> None,
     next_training_date |-> IsoFormat(day), language |-> owner[2]]

RowStates(day) ==
    {ImportedRow(o, d) : o \in RowOwners, d \in 0..day}
    \cup {UpdatedRow(ImportedRow(o, day), TRUE, FALSE, FALSE) : o \in RowOwners}

\* word_id is the position of the row
WithIds(rows) ==
    [i \in 1..Len(rows) |->
        [word_id |-> i, user_id |-> rows[i].user_id,
         native_word |-> rows[i].native_word, target_word |-> rows[i].target_word,
         progress |-> rows[i].progress,
         last_training_date |-> rows[i].last_training_date,
         next_training_date |-> rows[i].next_training_date,
         language |-> rows[i].language]]

InitTables(day) ==
    UNION {{WithIds(t) : t \in [1..n -> RowStates(day)]} : n \in 0..MaxRows}

----------------------------------------------------------------------------
(* ai_service.py: generate_sentence *)

MaxSentenceLen == 2   \* characters of a reply of the Oracle to a generation request

\* the exception an external call (Store, Oracle) can end with
Raised == [raised |-> TRUE]

\* the characters of a generated sentence
SentenceAlphabet == Alphabet \cup {"\"", "'"}

\* str.strip(chars) for one character
RECURSIVE LStripChar(_, _)
LStripChar(s, c) == IF s # <<>> /\ Head(s) = c THEN LStripChar(Tail(s), c) ELSE s

RECURSIVE RStripChar(_, _)
RStripChar(s, c) ==
    IF s # <<>> /\ s[Len(s)] = c THEN RStripChar(SubSeq(s, 1, Len(s) - 1), c) ELSE s

StripChar(s, c) == RStripChar(LStripChar(s, c), c)

\* lines 52 and 94: re.split(r'\s*\(', target_word)[0].strip()
MainWord(target_word) ==
    LET opens == {i \in 1..Len(target_word) : target_word[i] = "("}
    IN  IF opens = {} THEN Strip(target_word)
        ELSE Strip(SubSeq(target_word, 1,
                          (CHOOSE i \in opens : \A j \in opens : i <= j) - 1))

\* line 89: result.strip('"').strip("'").strip()
CleanSentence(result) == Strip(StripChar(StripChar(result, "\""), "'"))

\* what llm.invoke can end with: an exception or a response with a content
GenerationReplies ==
    {Raised} \cup {[content |-> t] : t \in UNION {[1..k -> SentenceAlphabet] : k \in 0..MaxSentenceLen}}

MAX_ATTEMPTS == 2

RECURSIVE GenerateSentenceFrom(_, _, _)

\* mutant: the check that the sentence contains the word left out
GenerateSentenceFrom_Unverified(target_word, replies, attempt) ==
    IF attempt >= MAX_ATTEMPTS
    THEN [sentence |-> None, requests |-> attempt]
    ELSE LET reply == replies[attempt + 1]
         IN  IF reply = Raised
             THEN IF attempt < MAX_ATTEMPTS - 1
                  THEN GenerateSentenceFrom(target_word, replies, attempt + 1)
                  ELSE [sentence |-> None, requests |-> attempt + 1]
             ELSE LET result == Strip(reply.content)
                  IN  IF result # <<>>
                      THEN [sentence |-> [text |-> CleanSentence(result)],
                            requests |-> attempt + 1]
                      ELSE GenerateSentenceFrom(target_word, replies, attempt + 1)

\* lines 76-110: the loop from the pass numbered attempt on; replies[k] is what
\* the k-th request to the Oracle ends with; the result is the sentence
\* returned (None for no sentence) and the number of requests made
GenerateSentenceFrom(target_word, replies, attempt) ==
    IF attempt >= MAX_ATTEMPTS
    THEN [sentence |-> None, requests |-> attempt]
    ELSE LET reply == replies[attempt + 1]
         IN  IF reply = Raised
             THEN IF attempt < MAX_ATTEMPTS - 1
                  THEN GenerateSentenceFrom(target_word, replies, attempt + 1)
                  ELSE [sentence |-> None, requests |-> attempt + 1]
             ELSE LET result == Strip(reply.content)
                  IN  IF /\ result # <<>>
                         /\ Contains(Lower(CleanSentence(result)),
                                     Lower(MainWord(target_word)))
                      THEN [sentence |-> [text |-> CleanSentence(result)],
                            requests |-> attempt + 1]
                      ELSE GenerateSentenceFrom(target_word, replies, attempt + 1)

\* lines 43-115: generate_sentence; the call records the replies it consumed
GenerateSentence(target_word, replies) ==
    LET generated == GenerateSentenceFrom(target_word, replies, 0)
    IN  /\ ret' = [op |-> "generate_sentence", target_word |-> target_word,
                   replies |-> SubSeq(replies, 1, generated.requests),
                   requests |-> generated.requests,
                   sentence |-> generated.sentence]
        /\ UNCHANGED <<today, word_pairs, errors, training_sessions, scored>>

----------------------------------------------------------------------------
(* ai_service.py: get_task_type_for_word; training_engine.py: task construction *)

\* line 350: the brackets of the probability table that contain the progress
ProbabilityBrackets(progress) ==
    {i \in 1..Len(TASK_PROBABILITIES) :
        /\ TASK_PROBABILITIES[i].lo <= progress
        /\ progress <= TASK_PROBABILITIES[i].hi}

\* lines 346-358: the types with a positive weight in the first bracket that
\* contains the progress, "translation" when no bracket does
TaskTypesForWord(progress) ==
    LET hits == ProbabilityBrackets(progress)
    IN  IF hits = {} THEN {"translation"}
        ELSE TASK_PROBABILITIES[CHOOSE i \in hits : \A j \in hits : i <= j].types

\* training_engine.py 128-180: with or without a generated sentence the
\* result is a translation task for the word
CreateTranslationTask(word) ==
    { [task_id |-> <<"trans", word.word_id>>, word_id |-> word.word_id,
       task_type |-> "translation"] }

\* training_engine.py 182-306
CreateMultipleChoiceTask(word) ==
    { [task_id |-> <<"mc", word.word_id>>, word_id |-> word.word_id,
       task_type |-> "multiple_choice"] }

\* training_engine.py 308-346: without a sentence, the translation path
CreateFillBlankTask(word) ==
    CreateTranslationTask(word)
    \cup { [task_id |-> <<"fill", word.word_id>>, word_id |-> word.word_id,
            task_type |-> "fill_blank"] }

\* training_engine.py 90-126: None when reading the user's errors or profile
\* fails (lines 113-114), Raised when a later Store call does (line 130)
CreateTaskForWord(word) ==
    {None, Raised}
    \cup UNION { CASE t = "translation" -> CreateTranslationTask(word)
                   [] t = "multiple_choice" -> CreateMultipleChoiceTask(word)
                   [] t = "fill_blank" -> CreateFillBlankTask(word)
                 : t \in TaskTypesForWord(word.progress) }

IsTask(x) == x # None /\ x # Raised

----------------------------------------------------------------------------
(* ai_service.py: translate_sentence, generate_multiple_choice_options *)

MaxOptionsLen == 3       \* characters of the reply to the first request for options
MaxMoreOptionsLen == 2   \* characters of the reply to the second request

\* lines 136-148: None after an exception or an empty reply, else the reply
\* without its surrounding blanks and quotes
TranslateSentence(reply) ==
    IF reply = Raised THEN None
    ELSE LET result == Strip(reply.content)
         IN  IF result # <<>> THEN [text |-> CleanSentence(result)] ELSE None

\* the words of the static option lists
Wichtig == <<"w", "i", "c", "h", "t", "i", "g">>
Bedeutsam == <<"b", "e", "d", "e", "u", "t", "s", "a", "m">>
Relevant == <<"r", "e", "l", "e", "v", "a", "n", "t">>
Entscheidend == <<"e", "n", "t", "s", "c", "h", "e", "i", "d", "e", "n", "d">>
Kritisch == <<"k", "r", "i", "t", "i", "s", "c", "h">>
Grundlegend == <<"g", "r", "u", "n", "d", "l", "e", "g", "e", "n", "d">>
Zentral == <<"z", "e", "n", "t", "r", "a", "l">>
Important == <<"i", "m", "p", "o", "r", "t", "a", "n", "t">>
Significant == <<"s", "i", "g", "n", "i", "f", "i", "c", "a", "n", "t">>
Crucial == <<"c", "r", "u", "c", "i", "a", "l">>
Essential == <<"e", "s", "s", "e", "n", "t", "i", "a", "l">>
Fundamental == <<"f", "u", "n", "d", "a", "m", "e", "n", "t", "a", "l">>
Central == <<"c", "e", "n", "t", "r", "a", "l">>
Different == <<"d", "i", "f", "f", "e", "r", "e", "n", "t">>
Another == <<"a", "n", "o", "t", "h", "e", "r">>
Alternative == <<"a", "l", "t", "e", "r", "n", "a", "t", "i", "v", "e">>

\* language.lower() for the names of config.SUPPORTED_LANGUAGES
LowerName(language) ==
    CASE language = "Deutsch" -> "deutsch"
      [] language = "English" -> "english"
      [] language = "Italian" -> "italian"

\* str.split(sep)
RECURSIVE Split(_, _)
Split(s, sep) ==
    LET at == {i \in 1..Len(s) : s[i] = sep}
    IN  IF at = {} THEN <<s>>
        ELSE LET i == CHOOSE i \in at : \A j \in at : i <= j
             IN  <<SubSeq(s, 1, i - 1)>> \o Split(SubSeq(s, i + 1, Len(s)), sep)

\* list[:n]
Take(list, n) == SubSeq(list, 1, Min(n, Len(list)))

\* ai_service.py 324-326: the options read from a reply
ParsedOptions(result, correct_answer) ==
    LET parts == Split(result, ",")
        stripped == [i \in 1..Len(parts) |-> Strip(parts[i])]
        Keep(opt) == opt # <<>> /\ opt # correct_answer
    IN  Take(SelectSeq(stripped, Keep), 2)

\* ai_service.py 328-336: the static list used after an empty reply
FallbackOptions(correct_answer, target_language) ==
    LET fallback_options ==
            IF LowerName(target_language) = "deutsch"
            THEN <<Wichtig, Bedeutsam, Relevant, Entscheidend, Kritisch>>
            ELSE IF LowerName(target_language) = "english"
            THEN <<Important, Significant, Relevant, Crucial, Essential>>
            ELSE <<Different, Another, Alternative>>
        Keep(opt) == opt # correct_answer
    IN  Take(SelectSeq(fallback_options, Keep), 2)

\* ai_service.py 290-344: generate_multiple_choice_options, reply being what
\* llm.invoke ends with
GenerateMultipleChoiceOptions(correct_answer, target_language, reply) ==
    IF reply = Raised
    THEN IF LowerName(target_language) = "deutsch"
         THEN <<Wichtig, Bedeutsam>>
         ELSE <<Important, Significant>>
    ELSE LET result == Strip(reply.content)
         IN  IF result # <<>>
             THEN ParsedOptions(result, correct_answer)
             ELSE FallbackOptions(correct_answer, target_language)

\* the replies of the Oracle to a request for options, of up to n characters
OptionReplies(n) ==
    {Raised}
    \cup {[content |-> t] : t \in UNION {[1..k -> {"a", "b", ",", " "}] : k \in 0..n}}

----------------------------------------------------------------------------
(* training_engine.py: the tasks built for a word *)

\* the characters \w of a regular expression, among those of the texts here
IsWordChar(c) == c \notin {" ", "\"", "'", ",", "(", ")", "_"}

\* \b at the gap before position i of s
Boundary(s, i) ==
    LET before == i - 1 \in 1..Len(s) /\ IsWordChar(s[i - 1])
        after == i \in 1..Len(s) /\ IsWordChar(s[i])
    IN  before # after

\* re.sub(r'\b' + re.escape(main_word) + r'\b', "_____", sentence,
\* flags=re.IGNORECASE), from position i on, for a main_word that is not empty
RECURSIVE BlankFrom(_, _, _)
BlankFrom(sentence, main_word, i) ==
    LET n == Len(main_word)
    IN  IF i > Len(sentence) THEN <<>>
        ELSE IF /\ i + n - 1 <= Len(sentence)
                /\ Lower(SubSeq(sentence, i, i + n - 1)) = Lower(main_word)
                /\ Boundary(sentence, i)
                /\ Boundary(sentence, i + n)
        THEN <<"_", "_", "_", "_", "_">> \o BlankFrom(sentence, main_word, i + n)
        ELSE <<sentence[i]>> \o BlankFrom(sentence, main_word, i + 1)

\* lines 246-250 and 323-329
SentenceWithBlank(sentence, target_word) ==
    BlankFrom(sentence, MainWord(target_word), 1)

\* if x: for the result of generate_sentence or translate_sentence
Truthy(x) == x # None /\ x.text # <<>>

\* lines 128-180: _create_translation_task; sentence is what generate_sentence
\* returned and reply what the request for its translation ends with
TranslationTask(word, sentence, reply) ==
    LET sentence_translation ==
            IF Truthy(sentence) THEN TranslateSentence(reply) ELSE None
        with_sentence == Truthy(sentence) /\ Truthy(sentence_translation)
    IN  [task_id |-> <<"trans", word.word_id>>,
         word_id |-> word.word_id,
         task_type |-> "translation",
         native_word |-> word.native_word,
         target_word |-> word.target_word,
         instruction |-> IF with_sentence
                         THEN [phrase |-> "translate_sentence_instruction",
                               language |-> word.language]
                         ELSE [phrase |-> "translate_word_instruction",
                               word |-> word.native_word,
                               language |-> word.language],
         sentence |-> IF with_sentence THEN sentence_translation
                      ELSE [translate_word |-> word.native_word],
         sentence_translation |-> word.native_word]

RECURSIVE AppendNew(_, _)

\* mutant: an option is added without the test that it is new
AppendNew_AllowsDuplicates(options, candidates) ==
    IF candidates = <<>> \/ Len(options) >= 3 THEN options
    ELSE AppendNew(Append(options, Head(candidates)), Tail(candidates))

\* lines 194-198, 203-205, 218-220: the candidates not yet among the options
\* are appended, in their order, while there are fewer than 3 options
AppendNew(options, candidates) ==
    IF candidates = <<>> \/ Len(options) >= 3 THEN options
    ELSE IF \E i \in 1..Len(options) : options[i] = Head(candidates)
    THEN AppendNew(options, Tail(candidates))
    ELSE AppendNew(Append(options, Head(candidates)), Tail(candidates))

\* lines 208-216: the generic words of a language
GenericOptions(language) ==
    IF LowerName(language) = "deutsch"
    THEN <<Wichtig, Bedeutsam, Relevant, Entscheidend, Kritisch, Grundlegend, Zentral>>
    ELSE IF LowerName(language) = "english"
    THEN <<Important, Significant, Relevant, Crucial, Essential, Fundamental, Central>>
    ELSE <<Different, Another, Alternative>>

\* the second request for options is made (lines 201, 264)
NeedsMoreOptions(target_word, language, reply1) ==
    Len(AppendNew(<<target_word>>,
                  GenerateMultipleChoiceOptions(target_word, language, reply1))) < 3

\* lines 192-220 and 253-285: the options before the shuffle
MultipleChoiceOptions(target_word, language, reply1, reply2) ==
    LET first == AppendNew(<<target_word>>,
                     GenerateMultipleChoiceOptions(target_word, language, reply1))
        second == IF Len(first) < 3
                  THEN AppendNew(first,
                           GenerateMultipleChoiceOptions(target_word, language, reply2))
                  ELSE first
    IN  IF Len(second) < 3 THEN AppendNew(second, GenericOptions(language)) ELSE second

\* random.shuffle(options): the options in any order
Shuffles(options) ==
    {[i \in 1..Len(options) |-> options[f[i]]] :
        f \in {g \in [1..Len(options) -> 1..Len(options)] :
                  \A i, j \in 1..Len(options) : i # j => g[i] # g[j]}}

\* list.index(x): the first position of x, counted from 0; ValueError without x
Index(list, x) ==
    LET at == {i \in 1..Len(list) : list[i] = x}
    IN  IF at = {} THEN Raised
        ELSE [number |-> (CHOOSE i \in at : \A j \in at : i <= j) - 1]

\* lines 182-306: _create_multiple_choice_task, one task for each shuffle
MultipleChoiceTasks(word, language, sentence, reply1, reply2) ==
    {IF Index(options, word.target_word) = Raised THEN Raised
     ELSE LET task == [task_id |-> <<"mc", word.word_id>>,
                       word_id |-> word.word_id,
                       task_type |-> "multiple_choice",
                       native_word |-> word.native_word,
                       target_word |-> word.target_word,
                       instruction |-> [phrase |-> "choose_correct_translation_for",
                                        word |-> word.native_word,
                                        language |-> language],
                       options |-> options,
                       correct_index |-> Index(options, word.target_word).number]
          IN  IF Truthy(sentence)
              THEN task @@ [sentence |-> [text |-> SentenceWithBlank(sentence.text,
                                                                     word.target_word)],
                            sentence_translation |-> word.native_word]
              ELSE task
     : options \in Shuffles(MultipleChoiceOptions(word.target_word, language,
                                                  reply1, reply2))}

\* mutant: without a sentence no task is built
FillBlankTask_NoFallback(word, language, sentence, fallback_sentence, reply) ==
    IF ~Truthy(sentence)
    THEN None
    ELSE [task_id |-> <<"fill", word.word_id>>,
          word_id |-> word.word_id,
          task_type |-> "fill_blank",
          native_word |-> word.native_word,
          target_word |-> word.target_word,
          instruction |-> [phrase |-> "insert_word_instruction", language |-> language],
          sentence |-> [text |-> SentenceWithBlank(sentence.text, word.target_word)],
          sentence_translation |-> word.native_word]

\* lines 308-346: _create_fill_blank_task; without a sentence the translation
\* task, built with a sentence generated anew
FillBlankTask(word, language, sentence, fallback_sentence, reply) ==
    IF ~Truthy(sentence)
    THEN TranslationTask(word, fallback_sentence, reply)
    ELSE [task_id |-> <<"fill", word.word_id>>,
          word_id |-> word.word_id,
          task_type |-> "fill_blank",
          native_word |-> word.native_word,
          target_word |-> word.target_word,
          instruction |-> [phrase |-> "insert_word_instruction", language |-> language],
          sentence |-> [text |-> SentenceWithBlank(sentence.text, word.target_word)],
          sentence_translation |-> word.native_word]

\* what the reads of the Store during task construction end with: all
\* succeed; get_user_errors or get_user_by_id raises inside the try (lines
\* 100-114); the read of _get_user_language_index raises (lines 39, 130)
StoreOutcomes == {"ok", "profile_fails", "index_fails"}

\* lines 90-126 with the outcomes of its external calls given: the tasks
\* _create_task_for_word can return, None, or Raised
TaskForWord(word, language, store, task_type, sentence, fallback_sentence, translation, reply1, reply2) ==
    IF store = "profile_fails" THEN {None}
    ELSE IF store = "index_fails" THEN {Raised}
    ELSE CASE task_type = "translation" ->
                {TranslationTask(word, sentence, translation)}
           [] task_type = "multiple_choice" ->
                MultipleChoiceTasks(word, language, sentence, reply1, reply2)
           [] task_type = "fill_blank" ->
                {FillBlankTask(word, language, sentence, fallback_sentence, translation)}

\* the fields of a task that the session operations read
TaskHead(task) ==
    IF IsTask(task)
    THEN [task_id |-> task.task_id, word_id |-> task.word_id,
          task_type |-> task.task_type]
    ELSE task

\* replies to the generation requests of a task: an exception, a sentence
\* with the word "ab", one with the letters "ab" inside a word, one without
TaskSentenceReplies ==
    {Raised, [content |-> <<"A", "b", " ", "a">>], [content |-> <<"b", "a", "b">>],
     [content |-> <<"b">>]}

\* replies to the translation request of a task
TaskTranslationReplies ==
    {Raised, [content |-> <<>>], [content |-> <<"\"", "b", "\"">>]}

\* the replies of an Oracle that fails on every call, or of one that answers
RepliesOf(oracle, replies) == IF oracle = "down" THEN {Raised} ELSE replies

\* what generate_sentence can return for these replies
SentencesFor(target_word, replies) ==
    {GenerateSentenceFrom(target_word, <<r1, r2>>, 0).sentence :
        r1 \in replies, r2 \in replies}

\* _create_task_for_word(word, user_id, language) for a word of the store;
\* a reply that is not requested is None
CreateTaskForWordCall ==
    \E i \in 1..Len(word_pairs), oracle \in {"down", "up"}, store \in StoreOutcomes :
    LET word == word_pairs[i]
        language == word.language
        called == store = "ok"
    IN
    \E task_type \in TaskTypesForWord(word.progress) :
    \E sentence \in IF called
                    THEN SentencesFor(word.target_word,
                                      RepliesOf(oracle, TaskSentenceReplies))
                    ELSE {None} :
    \E fallback_sentence \in
            IF called /\ task_type = "fill_blank" /\ ~Truthy(sentence)
            THEN SentencesFor(word.target_word, RepliesOf(oracle, TaskSentenceReplies))
            ELSE {None} :
    \E translation \in
            IF /\ called
               /\ \/ task_type = "translation" /\ Truthy(sentence)
                  \/ task_type = "fill_blank" /\ Truthy(fallback_sentence)
            THEN RepliesOf(oracle, TaskTranslationReplies)
            ELSE {None} :
    \E reply1 \in IF called /\ task_type = "multiple_choice"
                  THEN RepliesOf(oracle, OptionReplies(MaxOptionsLen))
                  ELSE {None} :
    \E reply2 \in IF /\ called
                     /\ task_type = "multiple_choice"
                     /\ NeedsMoreOptions(word.target_word, language, reply1)
                  THEN RepliesOf(oracle, OptionReplies(MaxMoreOptionsLen))
                  ELSE {None} :
    \E task \in TaskForWord(word, language, store, task_type, sentence,
                            fallback_sentence, translation, reply1, reply2) :
        /\ ret' = [op |-> "_create_task_for_word", word |-> word,
                   language |-> language, oracle |-> oracle, store |-> store,
                   task_type |-> task_type, sentence |-> sentence,
                   fallback_sentence |-> fallback_sentence,
                   translation |-> translation,
                   incorrect_options |->
                       IF reply1 = None THEN None
                       ELSE [list |-> GenerateMultipleChoiceOptions(
                                          word.target_word, language, reply1)],
                   additional_options |->
                       IF reply2 = None THEN None
                       ELSE [list |-> GenerateMultipleChoiceOptions(
                                          word.target_word, language, reply2)],
                   task |-> task]
        /\ UNCHANGED <<today, word_pairs, errors, training_sessions, scored>>

----------------------------------------------------------------------------
(* training_engine.py: the session store and the session operations *)

MaxStamps == 1      \* distinct timestamps (seconds) at which sessions start

\* session sizes asked for, 2 not being one of TRAINING_SESSION_LIMITS
StartLimits == {1, 2, 3}

\* st.session_state belongs to one browser session, whose logged-in user
\* makes every call of the engine (app.py 492-496, 566-571)
LoggedInUser == "u1"

\* session_id is "session_<user>_<second of the call>": two starts of the
\* user within one second share the id
SessionIds == {LoggedInUser} \X (1..MaxStamps)

\* attributes of a Python dict object: its keys are not among them
DictAttributes == {"get", "keys", "items", "values", "pop", "update"}
HasAttr(session_data, name) == name \in DictAttributes

\* lines 456-466
SaveSessionState(sessions, session_id, session_data) ==
    [id \in DOMAIN sessions \cup {session_id} |->
        IF id = session_id THEN session_data ELSE sessions[id]]

\* lines 44-88; a query of the word store that still fails after its retries
\* raises (database.py 27-39)
StartTrainingSession(user_id, language, session_limit, stamp) ==
    LET call == [op |-> "start_training_session", user_id |-> user_id,
                 language |-> language, session_limit |-> session_limit]
        session_id == <<user_id, stamp>>
    IN
    IF session_limit \notin TRAINING_SESSION_LIMITS
    THEN /\ ret' = call @@ [success |-> FALSE, error |-> "Invalid session limit"]
         /\ UNCHANGED <<today, word_pairs, errors, training_sessions, scored>>
    ELSE \E selection \in {[words |-> w] :
                               w \in WordsForTraining(user_id, language, session_limit)}
                           \cup {Raised} :
         IF selection = Raised
         THEN /\ ret' = call @@ Raised
              /\ UNCHANGED <<today, word_pairs, errors, training_sessions, scored>>
         ELSE
         LET words == selection.words IN
         IF words = <<>>
         THEN /\ ret' = call @@ [success |-> FALSE,
                                 error |-> "No words available for training"]
              /\ UNCHANGED <<today, word_pairs, errors, training_sessions, scored>>
         ELSE LET session_data ==
                      [session_id |-> session_id, user_id |-> user_id,
                       language |-> language, words |-> words,
                       current_word_index |-> 0, total_words |-> Len(words),
                       pre_generated_task |-> None]
              IN  /\ training_sessions' =
                        SaveSessionState(training_sessions, session_id, session_data)
                  /\ \E first_task \in CreateTaskForWord(words[1]) :
                        IF first_task = Raised
                        THEN ret' = call @@ Raised
                        ELSE IF first_task = None
                        THEN ret' = call @@ [success |-> FALSE,
                                             error |-> "Failed to create first task"]
                        ELSE ret' = call @@ [success |-> TRUE,
                                             session_id |-> session_id,
                                             current_task |-> first_task,
                                             current_task_index |-> 0,
                                             total_tasks |-> Len(words)]
                  /\ UNCHANGED <<today, word_pairs, errors, scored>>

\* mutant: the prefetch also moves the session to the word it prepared
WithPrefetch_Advances(session_data, index) ==
    IF index < Len(session_data.words) /\ session_data.pre_generated_task = None
    THEN {session_data}
         \cup {[session_data EXCEPT !.pre_generated_task = t,
                                    !.current_word_index = index + 1] :
                 t \in {x \in CreateTaskForWord(session_data.words[index + 1]) : x # None /\ x # Raised}}
    ELSE {session_data}

\* lines 522-544 and 558-571: fill the prefetch slot with a task for
\* words[index] (0-based) when there is such a word and the slot is empty;
\* a failure leaves the session as it is
WithPrefetch(session_data, index) ==
    IF index < Len(session_data.words) /\ session_data.pre_generated_task = None
    THEN {session_data}
         \cup {[session_data EXCEPT !.pre_generated_task = t] :
                 t \in {x \in CreateTaskForWord(session_data.words[index + 1]) : IsTask(x)}}
    ELSE {session_data}

\* mutant: the end-of-list test off by one
HasMoreTasks_OffByOne(current_index, words) == current_index <= Len(words)

\* line 491: the test that tasks remain
HasMoreTasks(current_index, words) == current_index < Len(words)

\* lines 478-520; words[current_index] past the end of the list is an IndexError
GetNextTask(session_id) ==
    LET call == [op |-> "get_next_task", session_id |-> session_id] IN
    IF session_id \notin DOMAIN training_sessions
    THEN /\ ret' = call @@ [success |-> FALSE, error |-> "Session not found"]
         /\ UNCHANGED <<today, word_pairs, errors, training_sessions, scored>>
    ELSE
    LET session_data == training_sessions[session_id]
        current_index == session_data.current_word_index
        words == session_data.words
    IN
    IF ~HasMoreTasks(current_index, words)
    THEN /\ ret' = call @@ [success |-> FALSE, error |-> "No more tasks available"]
         /\ UNCHANGED <<today, word_pairs, errors, training_sessions, scored>>
    ELSE
    LET advanced == [session_data EXCEPT !.current_word_index = current_index + 1]
        use_slot == /\ HasAttr(session_data, "pre_generated_task")
                    /\ session_data.pre_generated_task # None
        consumed == IF use_slot
                    THEN [advanced EXCEPT !.pre_generated_task = None]
                    ELSE advanced
    IN
    \E next_task \in (IF use_slot THEN {session_data.pre_generated_task}
                      ELSE IF current_index < Len(words)
                      THEN CreateTaskForWord(words[current_index + 1])
                      ELSE {Raised}) :
        IF next_task = Raised
        THEN /\ ret' = call @@ Raised
             /\ training_sessions' = [training_sessions EXCEPT ![session_id] = consumed]
             /\ UNCHANGED <<today, word_pairs, errors, scored>>
        ELSE IF next_task = None
        THEN /\ ret' = call @@ [success |-> FALSE, error |-> "Failed to create next task"]
             /\ training_sessions' = [training_sessions EXCEPT ![session_id] = consumed]
             /\ UNCHANGED <<today, word_pairs, errors, scored>>
        ELSE /\ \E after \in WithPrefetch(consumed, current_index + 1) :
                   training_sessions' = [training_sessions EXCEPT ![session_id] = after]
             /\ ret' = call @@ [success |-> TRUE,
                                current_task |-> next_task,
                                current_task_index |-> current_index + 1,
                                total_tasks |-> Len(words),
                                is_last_task |-> (current_index + 1 >= Len(words))]
             /\ UNCHANGED <<today, word_pairs, errors, scored>>

\* lines 546-575
PrepareNextTaskInBackground(session_id) ==
    /\ ret' = [op |-> "prepare_next_task_in_background", session_id |-> session_id]
    /\ IF session_id \notin DOMAIN training_sessions
       THEN UNCHANGED training_sessions
       ELSE \E after \in WithPrefetch(training_sessions[session_id],
                                      training_sessions[session_id].current_word_index) :
               training_sessions' = [training_sessions EXCEPT ![session_id] = after]
    /\ UNCHANGED <<today, word_pairs, errors, scored>>

\* mutant: the query hands the position out and moves on
GetCurrentTaskInfo_Advances(session_id) ==
    LET call == [op |-> "get_current_task_info", session_id |-> session_id] IN
    IF session_id \notin DOMAIN training_sessions
    THEN /\ ret' = call @@ [success |-> FALSE, error |-> "Session not found"]
         /\ UNCHANGED <<today, word_pairs, errors, training_sessions, scored>>
    ELSE LET session_data == training_sessions[session_id]
             current_index == session_data.current_word_index
         IN  /\ ret' = call @@ [success |-> TRUE,
                                current_task_index |-> current_index,
                                total_tasks |-> session_data.total_words,
                                is_last_task |-> (current_index >= session_data.total_words)]
             /\ training_sessions' =
                   [training_sessions EXCEPT ![session_id].current_word_index =
                       IF current_index < session_data.total_words
                       THEN current_index + 1 ELSE current_index]
             /\ UNCHANGED <<today, word_pairs, errors, scored>>

\* lines 577-592
GetCurrentTaskInfo(session_id) ==
    LET call == [op |-> "get_current_task_info", session_id |-> session_id] IN
    /\ IF session_id \notin DOMAIN training_sessions
       THEN ret' = call @@ [success |-> FALSE, error |-> "Session not found"]
       ELSE LET session_data == training_sessions[session_id] IN
            ret' = call @@ [success |-> TRUE,
                            current_task_index |-> session_data.current_word_index,
                            total_tasks |-> session_data.total_words,
                            is_last_task |-> (session_data.current_word_index
                                                >= session_data.total_words)]
    /\ UNCHANGED <<today, word_pairs, errors, training_sessions, scored>>

----------------------------------------------------------------------------
(* database.py: log_error; training_engine.py: submit_answer *)

MaxErrors == 1      \* error occurrences the errors table can count
MaxAnswers == 1     \* answers scored in one run of the session specifications
MaxResubmits == 2   \* answers scored in one run on the tasks of one session

RECURSIVE SumCounts(_)
SumCounts(rows) == IF rows = <<>> THEN 0 ELSE Head(rows).count + SumCounts(Tail(rows))

\* database.py 286-308 (and 317-337): increment the row of this description
\* or create it with count 1
LogError(rows, user_id, language, description) ==
    LET existing == {i \in 1..Len(rows) :
                        /\ rows[i].user_id = user_id
                        /\ rows[i].language = language
                        /\ rows[i].description = description}
    IN  IF existing # {}
        THEN LET i == CHOOSE i \in existing : \A j \in existing : i <= j
             IN  [rows EXCEPT ![i].count = @ + 1]
        ELSE Append(rows, [error_id |-> Len(rows) + 1, user_id |-> user_id,
                           language |-> language, description |-> description,
                           count |-> 1])

RECURSIVE LogErrors(_, _, _, _)
LogErrors(rows, user_id, language, descriptions) ==
    IF descriptions = <<>> THEN rows
    ELSE LogErrors(LogError(rows, user_id, language, Head(descriptions)),
                   user_id, language, Tail(descriptions))

Verdict(c, m, s) ==
    [is_correct |-> c, is_morphological_error |-> m, is_synonym |-> s]

\* the verdicts the analysis of an answer can return, by task id prefix:
\* ai_service.py 632-663 (classify_translation_errors), 728-767
\* (analyze_fill_blank_answer), 163-205 and 228-258 (analyze_answer)
AnalysisResults(prefix) ==
    IF prefix = "trans"
    THEN {Verdict(TRUE, FALSE, FALSE), Verdict(FALSE, TRUE, FALSE),
          Verdict(FALSE, FALSE, FALSE)}
    ELSE IF prefix = "fill"
    THEN {Verdict(TRUE, FALSE, FALSE), Verdict(FALSE, TRUE, FALSE),
          Verdict(FALSE, FALSE, TRUE), Verdict(FALSE, FALSE, FALSE)}
    ELSE {Verdict(TRUE, FALSE, FALSE), Verdict(FALSE, TRUE, FALSE),
          Verdict(FALSE, FALSE, FALSE)}

\* the error descriptions a wrong answer is logged under: one per error
\* category of a translation (possibly none), else the class that
\* classify_error names (ai_service.py 260-286)
LoggedDescriptions(prefix) ==
    IF prefix = "trans"
    THEN { <<>>, <<"general: unclear (Quality: fair)">> }
    ELSE { <<"Vocabulary: Wrong word choice">> }

TaskPrefixes == {"trans", "mc", "fill"}

\* mutant: the word looked up among the words of all users
UserWordsWithId_AnyOwner(user_id, word_id) ==
    {i \in 1..Len(word_pairs) : word_pairs[i].word_id = word_id}

\* training_engine.py 356-357: the rows of get_user_words(user_id) that have
\* this word_id
UserWordsWithId(user_id, word_id) ==
    {i \in 1..Len(word_pairs) :
        /\ word_pairs[i].user_id = user_id
        /\ word_pairs[i].word_id = word_id}

\* training_engine.py 348-454
SubmitAnswer(task_id, user_id, session_id, analysis, descriptions) ==
    LET call == [op |-> "submit_answer", task_id |-> task_id, user_id |-> user_id]
        task_type == task_id[1]
        word_id == task_id[2]
        found == UserWordsWithId(user_id, word_id)
    IN
    IF found = {}
    THEN /\ ret' = call @@ [success |-> FALSE, error |-> "Word not found"]
         /\ UNCHANGED <<today, word_pairs, errors, training_sessions, scored>>
    ELSE
    LET i == CHOOSE i \in found : \A j \in found : i <= j
        word == word_pairs[i]
        row == UpdatedRow(word, analysis.is_correct,
                          analysis.is_morphological_error, analysis.is_synonym)
        logs == ~analysis.is_correct /\ ~analysis.is_morphological_error
    IN  /\ scored' = scored + 1
        /\ word_pairs' = [word_pairs EXCEPT ![i] = row]
        /\ UNCHANGED <<today, training_sessions>>
        /\ IF logs
           THEN /\ SumCounts(errors) + Len(descriptions) <= MaxErrors
                /\ errors' = LogErrors(errors, user_id, word.language, descriptions)
           ELSE UNCHANGED errors
        /\ ret' = call @@ [success |-> TRUE,
                           word |-> word,
                           analysis |-> analysis,
                           is_correct |-> analysis.is_correct,
                           is_morphological_error |-> analysis.is_morphological_error,
                           is_synonym |-> analysis.is_synonym,
                           new_progress |-> row.progress,
                           next_training_date |-> FromIsoFormat(row.next_training_date)]

----------------------------------------------------------------------------
(* ai_service.py: the analysis of an answer.  The Oracle is the language   *)
(* model behind self.llm / self.llm_advanced; a call of it raises or       *)
(* returns a text, modelled by what the parsing code reads in it.          *)

\* int(text): the number the text is, or a ValueError
IsNumber(content) == "number" \in DOMAIN content

\* responses to the similarity prompt (lines 211-226)
SimilarityResponses ==
    {Raised} \cup {[number |-> n] : n \in 1..10} \cup {[text |-> "unclear"]}

\* responses to the proofreading prompt (lines 468-492): a JSON object, with
\* or without the key has_errors, or a text that is no JSON
SentenceResponses ==
    {Raised}
    \cup {[json |-> [has_errors |-> b]] : b \in Bools}
    \cup {[json |-> [overall_quality |-> "good"]]}
    \cup {[text |-> [mentions_error |-> b]] : b \in Bools}

\* responses to the target-word prompt (lines 524-550)
WordResponses ==
    {Raised}
    \cup {[json |-> [spelling_correct |-> sp, grammar_correct |-> gr,
                     overall_correct |-> ov]] : sp \in Bools, gr \in Bools, ov \in Bools}
    \cup {[json |-> [word_present |-> TRUE]]}
    \cup {[text |-> "unclear"]}

\* responses to the fill-in prompt (lines 683-709): the SCORE: line and the
\* TYPE: line, each there or not
ScoreLines ==
    {None} \cup {[number |-> n] : n \in 0..10} \cup {[text |-> "unclear"]}

Tags == {"exact", "synonym", "morphological", "wrong", "Synonym", "other"}

TypeLines == {None} \cup {[tag |-> t] : t \in Tags}

FillResponses == {Raised} \cup [score : ScoreLines, type : TypeLines]

\* str.lower() of a tag
LowerTag(t) == IF t = "Synonym" THEN "synonym" ELSE t

\* lines 225-258
AnalyzeSentenceSimilarity(response) ==
    IF response = Raised \/ ~IsNumber(response)
    THEN Verdict(FALSE, FALSE, FALSE)
    ELSE IF response.number >= 9 THEN Verdict(TRUE, FALSE, FALSE)
    ELSE IF response.number >= 7 THEN Verdict(FALSE, TRUE, FALSE)
    ELSE Verdict(FALSE, FALSE, FALSE)

\* lines 154-205
AnalyzeAnswer(user_answer, correct_answer, response) ==
    LET user_clean == Strip(Lower(user_answer))
        correct_clean == Strip(Lower(correct_answer))
    IN  IF user_clean = correct_clean THEN Verdict(TRUE, FALSE, FALSE)
        ELSE IF WordCount(user_clean) > 1 /\ WordCount(correct_clean) > 1
        THEN AnalyzeSentenceSimilarity(response)
        ELSE IF Contains(correct_clean, user_clean) \/ Contains(user_clean, correct_clean)
        THEN Verdict(FALSE, TRUE, FALSE)
        ELSE Verdict(FALSE, FALSE, FALSE)

\* lines 464-518
AnalyzeTranslationSentence(user_sentence, response) ==
    IF response = Raised
    THEN [success |-> FALSE, has_errors |-> FALSE]
    ELSE IF "json" \in DOMAIN response
    THEN [success |-> TRUE, has_errors |-> JsonGet(response.json, "has_errors", FALSE)]
    ELSE [success |-> TRUE, has_errors |-> response.text.mentions_error]

\* lines 520-585
AnalyzeTargetWordUsage(user_sentence, target_word, response) ==
    LET present == Contains(Lower(user_sentence), Lower(target_word)) IN
    IF response = Raised
    THEN [success |-> FALSE, word_present |-> present,
          spelling_correct |-> FALSE, grammar_correct |-> FALSE,
          overall_correct |-> FALSE]
    ELSE IF "json" \in DOMAIN response
    THEN [success |-> TRUE,
          word_present |-> JsonGet(response.json, "word_present", FALSE),
          spelling_correct |-> JsonGet(response.json, "spelling_correct", FALSE),
          grammar_correct |-> JsonGet(response.json, "grammar_correct", FALSE),
          overall_correct |-> JsonGet(response.json, "overall_correct", FALSE)]
    ELSE [success |-> TRUE, word_present |-> present,
          spelling_correct |-> TRUE, grammar_correct |-> TRUE,
          overall_correct |-> present]

\* mutants: the variant test without the overall-usage flag; the Correct
\* test without the proofreading stage
ClassifyTranslationErrors_VariantIgnoresUsage(sentence_analysis, word_analysis) ==
    Verdict(/\ ~JsonGet(sentence_analysis, "has_errors", FALSE)
            /\ JsonGet(word_analysis, "overall_correct", TRUE),
            /\ JsonGet(word_analysis, "spelling_correct", TRUE)
            /\ JsonGet(word_analysis, "grammar_correct", TRUE),
            FALSE)

ClassifyTranslationErrors_IgnoresProofreading(sentence_analysis, word_analysis) ==
    Verdict(JsonGet(word_analysis, "overall_correct", TRUE),
            /\ JsonGet(word_analysis, "spelling_correct", TRUE)
            /\ JsonGet(word_analysis, "grammar_correct", TRUE)
            /\ ~JsonGet(word_analysis, "overall_correct", TRUE),
            FALSE)

\* lines 632-663: the verdict of a translation
ClassifyTranslationErrors(sentence_analysis, word_analysis) ==
    LET is_correct == /\ ~JsonGet(sentence_analysis, "has_errors", FALSE)
                      /\ JsonGet(word_analysis, "overall_correct", TRUE)
        is_morphological_error ==
            /\ JsonGet(word_analysis, "spelling_correct", TRUE)
            /\ JsonGet(word_analysis, "grammar_correct", TRUE)
            /\ ~JsonGet(word_analysis, "overall_correct", TRUE)
    IN  Verdict(is_correct, is_morphological_error, FALSE)

\* lines 711-726: the score and the type read from the response
ParsedScore(response) ==
    IF response.score # None /\ IsNumber(response.score)
    THEN response.score.number ELSE 0

ParsedType(response) ==
    IF response.type = None THEN "unknown" ELSE LowerTag(response.type.tag)

\* mutant: the last accepting threshold at 7
AnalyzeFillBlankAnswer_Threshold7(user_answer, correct_word, response) ==
    IF response = Raised
    THEN Verdict(Strip(Lower(user_answer)) = Strip(Lower(correct_word)), FALSE, FALSE)
    ELSE LET score == ParsedScore(response)
             answer_type == ParsedType(response)
         IN  IF score >= 9 THEN Verdict(TRUE, FALSE, FALSE)
             ELSE IF score >= 7 /\ answer_type \in {"synonym", "morphological"}
             THEN Verdict(FALSE, answer_type = "morphological", answer_type = "synonym")
             ELSE IF score >= 7 THEN Verdict(FALSE, TRUE, FALSE)
             ELSE Verdict(FALSE, FALSE, FALSE)

\* lines 679-767
AnalyzeFillBlankAnswer(user_answer, correct_word, response) ==
    IF response = Raised
    THEN Verdict(Strip(Lower(user_answer)) = Strip(Lower(correct_word)), FALSE, FALSE)
    ELSE LET score == ParsedScore(response)
             answer_type == ParsedType(response)
         IN  IF score >= 9 THEN Verdict(TRUE, FALSE, FALSE)
             ELSE IF score >= 7 /\ answer_type \in {"synonym", "morphological"}
             THEN Verdict(FALSE, answer_type = "morphological", answer_type = "synonym")
             ELSE IF score >= 6 THEN Verdict(FALSE, TRUE, FALSE)
             ELSE Verdict(FALSE, FALSE, FALSE)

\* what the Oracle answers to the calls of one submission, by task id prefix
\* (training_engine.py 370-386)
OracleResponses(prefix) ==
    IF prefix = "trans" THEN [sentence : SentenceResponses, word : WordResponses]
    ELSE IF prefix = "fill" THEN [fill : FillResponses]
    ELSE [similarity : SimilarityResponses]

\* training_engine.py 370-386: the analysis of an answer, kept with the
\* answer, the word and the Oracle responses it was made from
Analysis(prefix, user_answer, target_word, oracle) ==
    LET made == [task_type |-> prefix, user_answer |-> user_answer,
                 target_word |-> target_word, oracle |-> oracle]
    IN  IF prefix = "trans"
        THEN LET sentence_analysis ==
                     AnalyzeTranslationSentence(user_answer, oracle.sentence)
                 word_analysis ==
                     AnalyzeTargetWordUsage(user_answer, target_word, oracle.word)
             IN  ClassifyTranslationErrors(sentence_analysis, word_analysis)
                 @@ [sentence_analysis |-> sentence_analysis,
                     word_analysis |-> word_analysis] @@ made
        ELSE IF prefix = "fill"
        THEN AnalyzeFillBlankAnswer(user_answer, target_word, oracle.fill) @@ made
        ELSE AnalyzeAnswer(user_answer, target_word, oracle.similarity) @@ made

\* ai_service.py 260-286: classify_error
ClassifyError(user_answer, correct_answer) ==
    LET user_clean == Strip(Lower(user_answer))
        correct_clean == Strip(Lower(correct_answer))
        diff_count == Cardinality({i \in 1..Len(user_clean) :
                                      user_clean[i] # correct_clean[i]})
    IN  IF user_clean = correct_clean THEN "Correct: No error"
        ELSE IF Len(user_clean) = Len(correct_clean) /\ diff_count <= 2
        THEN "Spelling: Letter substitution"
        ELSE IF Contains(correct_clean, user_clean) \/ Contains(user_clean, correct_clean)
        THEN "Grammar: Morphological error"
        ELSE "Vocabulary: Wrong word choice"

\* training_engine.py 348-454, the analysis included; the description of a
\* task that is no translation is the one classify_error gives (lines 407-409)
SubmitTypedAnswer(task_id, user_answer, user_id, session_id, oracle, descriptions) ==
    LET found == UserWordsWithId(user_id, task_id[2])
        target_word == IF found = {} THEN <<>>
                       ELSE word_pairs[CHOOSE i \in found : \A j \in found : i <= j].target_word
    IN  SubmitAnswer(task_id, user_id, session_id,
                     Analysis(task_id[1], user_answer, target_word, oracle),
                     IF task_id[1] = "trans" THEN descriptions
                     ELSE <<ClassifyError(user_answer, target_word)>>)

----------------------------------------------------------------------------
(* time: midnight passes *)

NextDay ==
    /\ today < MaxDay
    /\ today' = today + 1
    /\ ret' = [op |-> "next_day"]
    /\ UNCHANGED <<word_pairs, errors, training_sessions, scored>>

----------------------------------------------------------------------------
(* The word store under imports and progress updates *)

InitProgress ==
    /\ today = 0
    /\ word_pairs = <<>>
    /\ errors = <<>>
    /\ training_sessions = <<>>
    /\ scored = 0
    /\ ret = [op |-> "init"]

NextProgress ==
    \/ NextDay
    \/ /\ Len(word_pairs) < MaxWords
       /\ \E p \in ImportPairs : ImportWordPair("u1", p, "Deutsch")
    \/ \E w \in 1..MaxWords, c \in Bools, m \in Bools, s \in Bools :
          UpdateWordProgress(w, c, m, s)

SpecProgress == InitProgress /\ [][NextProgress]_vars

----------------------------------------------------------------------------
(* Imports into an empty word store *)

\* the pairs of the import files: a pair, the same pair written with a
\* capital, and another pair
ImportFile ==
    ImportPairs \cup { << <<"B">>, <<"a", "b">> >>, << <<"a">>, <<"b">> >> }

InitImport ==
    /\ today = 0
    /\ word_pairs = <<>>
    /\ errors = <<>>
    /\ training_sessions = <<>>
    /\ scored = 0
    /\ ret = [op |-> "init"]

NextImport ==
    \/ NextDay
    \/ /\ Len(word_pairs) < MaxRows
       /\ \E p \in ImportFile, l \in Languages : ImportWordPair(LoggedInUser, p, l)

SpecImport == InitImport /\ [][NextImport]_vars

----------------------------------------------------------------------------
(* Store operations run through the retry loop *)

InitRetry ==
    /\ today = 0
    /\ word_pairs = <<>>
    /\ errors = <<>>
    /\ training_sessions = <<>>
    /\ scored = 0
    /\ ret = [op |-> "init"]

NextRetry ==
    \/ ExecuteWithRetry
    \/ \E outcome \in OperationOutcomes : ExecuteAttempt(outcome)

SpecRetry == InitRetry /\ [][NextRetry]_vars

----------------------------------------------------------------------------
(* Sentence generation for a target word *)

\* target words of stored pairs: one letter, two letters, and a word with a
\* parenthetical note
SentenceTargets == {<<"a">>, <<"a", "b">>, <<"a", " ", "(", "b", ")">>}

InitGenerate ==
    /\ today = 0
    /\ word_pairs = <<>>
    /\ errors = <<>>
    /\ training_sessions = <<>>
    /\ scored = 0
    /\ ret = [op |-> "init"]

\* one call, for every target word and every pair of replies
NextGenerate ==
    /\ ret.op = "init"
    /\ \E t \in SentenceTargets, r1 \in GenerationReplies, r2 \in GenerationReplies :
          GenerateSentence(t, <<r1, r2>>)

SpecGenerate == InitGenerate /\ [][NextGenerate]_vars

----------------------------------------------------------------------------
(* Task construction for the words of a store *)

\* a stored word of LoggedInUser
TaskWord(id, native_word, target_word, language, progress) ==
    [word_id |-> id, user_id |-> LoggedInUser, native_word |-> native_word,
     target_word |-> target_word, progress |-> progress,
     last_training_date |-> None, next_training_date |-> IsoFormat(0),
     language |-> language]

\* words whose target is met by the generated sentences, and words whose
\* target is one of the static options of their language
TaskTable ==
    << TaskWord(1, <<"b">>, <<"a", "b">>, "Deutsch", 0),
       TaskWord(2, <<"a">>, Wichtig, "Deutsch", 60),
       TaskWord(3, <<"a">>, Significant, "English", 100),
       TaskWord(4, <<"a">>, Another, "Italian", 20) >>

InitTask ==
    /\ today = 0
    /\ word_pairs = TaskTable
    /\ errors = <<>>
    /\ training_sessions = <<>>
    /\ scored = 0
    /\ ret = [op |-> "init"]

\* one construction from the initial state
NextTask ==
    /\ ret.op = "init"
    /\ CreateTaskForWordCall

SpecTask == InitTask /\ [][NextTask]_vars

----------------------------------------------------------------------------
(* Due-word selection over the word tables *)

SelectLimits == {1, 3, 5}

InitSelect ==
    /\ today = MaxDay - 1
    /\ word_pairs \in InitTables(today)
    /\ errors = <<>>
    /\ training_sessions = <<>>
    /\ scored = 0
    /\ ret = [op |-> "init"]

NextSelect ==
    \/ NextDay
    \/ \E u \in Users, l \in Languages, n \in SelectLimits :
          GetWordsForTraining(u, l, n)

SpecSelect == InitSelect /\ [][NextSelect]_vars

----------------------------------------------------------------------------
(* Session starts over the word tables *)

\* the word tables of at most MaxWords rows
StartTables(day) == {t \in InitTables(day) : Len(t) <= MaxWords}

InitStart ==
    /\ today = MaxDay - 1
    /\ word_pairs \in StartTables(today)
    /\ errors = <<>>
    /\ training_sessions = <<>>
    /\ scored = 0
    /\ ret = [op |-> "init"]

NextStart ==
    \E l \in Languages, n \in StartLimits, t \in 1..MaxStamps :
        StartTrainingSession(LoggedInUser, l, n, t)

SpecStart == InitStart /\ [][NextStart]_vars

----------------------------------------------------------------------------
(* Training sessions over the word tables *)

\* the tables of the logged-in user's words of one language
SessionTables(day) ==
    {t \in InitTables(day) :
        \A i \in 1..Len(t) : t[i].user_id = LoggedInUser /\ t[i].language = "Deutsch"}

InitSession ==
    /\ today = MaxDay - 1
    /\ word_pairs \in SessionTables(today)
    /\ errors = <<>>
    /\ training_sessions = <<>>
    /\ scored = 0
    /\ ret = [op |-> "init"]

NextSession ==
    \/ \E l \in Languages, n \in StartLimits, t \in 1..MaxStamps :
          StartTrainingSession(LoggedInUser, l, n, t)
    \/ \E id \in SessionIds : GetNextTask(id)
    \/ \E id \in SessionIds : PrepareNextTaskInBackground(id)
    \/ \E id \in SessionIds : GetCurrentTaskInfo(id)
    \/ \E p \in TaskPrefixes, w \in 1..MaxRows, id \in SessionIds :
          \E a \in AnalysisResults(p), d \in LoggedDescriptions(p) :
             /\ UserWordsWithId(LoggedInUser, w) # {} => scored < MaxAnswers
             /\ SubmitAnswer(<<p, w>>, LoggedInUser, id, a, d)

SpecSession == InitSession /\ [][NextSession]_vars

----------------------------------------------------------------------------
(* Requests of the logged-in user over a store with words of several owners *)

NextRequests ==
    \/ \E l \in Languages, n \in StartLimits, t \in 1..MaxStamps :
          StartTrainingSession(LoggedInUser, l, n, t)
    \/ \E id \in SessionIds : GetNextTask(id)
    \/ \E p \in TaskPrefixes, w \in 1..MaxRows, id \in SessionIds :
          \E a \in AnalysisResults(p), d \in LoggedDescriptions(p) :
             /\ UserWordsWithId(LoggedInUser, w) # {} => scored < MaxAnswers
             /\ SubmitAnswer(<<p, w>>, LoggedInUser, id, a, d)

SpecRequests == InitStart /\ [][NextRequests]_vars

----------------------------------------------------------------------------
(* Answers submitted again: submit_answer called with the task ids of one *)
(* session, each possibly more than once                                  *)

\* every call is made for the session started at second 1
NextResubmit ==
    \/ /\ training_sessions = <<>>
       /\ \E l \in Languages, n \in StartLimits :
             StartTrainingSession(LoggedInUser, l, n, 1)
    \/ /\ <<LoggedInUser, 1>> \in DOMAIN training_sessions
       /\ scored < MaxResubmits
       /\ \E p \in TaskPrefixes, w \in 1..MaxRows :
             \E a \in AnalysisResults(p), d \in LoggedDescriptions(p) :
                SubmitAnswer(<<p, w>>, LoggedInUser, <<LoggedInUser, 1>>, a, d)

SpecResubmit == InitSession /\ [][NextResubmit]_vars

----------------------------------------------------------------------------
(* One submitted answer: every task type, answer and Oracle behaviour *)

\* target words of one word and of two words
AnswerTargets == { <<"a", "b">>, <<"a", " ", "b">> }

\* the word store: one word of the logged-in user, imported today
AnswerTables(day) ==
    {WithIds(<< [ImportedRow(<<LoggedInUser, "Deutsch">>, day) EXCEPT !.target_word = t] >>) :
        t \in AnswerTargets}

\* the form submits an answer only when it is not blank (app.py 565)
Answers == {a \in Texts(MaxAnswerLen) : Strip(a) # <<>>}

InitAnswer ==
    /\ today = MaxDay - 1
    /\ word_pairs \in AnswerTables(today)
    /\ errors = <<>>
    /\ training_sessions = <<>>
    /\ scored = 0
    /\ ret = [op |-> "init"]

NextAnswer ==
    /\ ret.op = "init"
    /\ \E p \in TaskPrefixes, a \in Answers, id \in SessionIds :
          \E o \in OracleResponses(p), d \in LoggedDescriptions(p) :
             SubmitTypedAnswer(<<p, 1>>, a, LoggedInUser, id, o, d)

SpecAnswer == InitAnswer /\ [][NextAnswer]_vars

----------------------------------------------------------------------------
(* Properties of the progress and schedule update (SpecProgress) *)

\* the call just made was update_word_progress on an existing word
Updated == ret.op = "update_word_progress" /\ ret.success

\* the row of the updated word as it is stored now
StoredRow == word_pairs[CHOOSE i \in 1..Len(word_pairs) : word_pairs[i].word_id = ret.word_id]

ScoredCorrect ==
    Updated /\ ret.is_correct /\ ~ret.is_morphological_error /\ ~ret.is_synonym

ScoredIncorrect ==
    Updated /\ ~ret.is_correct /\ ~ret.is_morphological_error /\ ~ret.is_synonym

ScoredVariantOrSynonym ==
    Updated /\ (ret.is_morphological_error \/ ret.is_synonym)

\* the interval table as the specification states it
BracketDays(p) ==
    CASE p \in 0..19 -> 0
      [] p \in 20..39 -> 1
      [] p \in 40..59 -> 3
      [] p \in 60..79 -> 7
      [] p \in 80..99 -> 14
      [] p = 100 -> 45

\* C1: the stored progress of every word is within 0..100 after every
\* update_word_progress step, whatever the sequence of scored answers.
C1_ProgressInBounds ==
    \A i \in 1..Len(word_pairs) : word_pairs[i].progress \in 0..100

\* a Correct answer on a word at 100 has just been stored (the clamp acted)
C1_Witness ==
    ScoredCorrect /\ ret.word.progress = 100 /\ StoredRow.progress = 100

\* C2: a Correct answer stores min(100, old + 20) and the due date
\* today + the interval of the bracket that contains the new progress.
C2_CorrectUpdate ==
    ScoredCorrect =>
        /\ StoredRow.progress = Min(100, ret.word.progress + 20)
        /\ StoredRow.next_training_date = IsoFormat(today + BracketDays(StoredRow.progress))

\* a Correct answer took a word from 80 to 100, due in 45 days
C2_Witness ==
    /\ ScoredCorrect
    /\ ret.word.progress = 80
    /\ StoredRow.progress = 100
    /\ StoredRow.next_training_date = IsoFormat(today + 45)

\* C3: an Incorrect answer stores max(0, old - 40) and the due date today,
\* whatever bracket the new progress falls in.
C3_IncorrectUpdate ==
    ScoredIncorrect =>
        /\ StoredRow.progress = Max(0, ret.word.progress - 40)
        /\ StoredRow.next_training_date = IsoFormat(today)

\* an Incorrect answer took a word from 60 to 20 (a bracket of 1 day), due today
C3_Witness ==
    /\ ScoredIncorrect
    /\ ret.word.progress = 60
    /\ StoredRow.progress = 20
    /\ StoredRow.next_training_date = IsoFormat(today)

\* C4: a MorphologicalVariant or SynonymAccepted answer leaves progress and
\* due date as they were, only last-practised changes, and this holds
\* whatever the is_correct flag says.
C4_VariantKeepsSchedule ==
    ScoredVariantOrSynonym =>
        StoredRow = [ret.word EXCEPT !.last_training_date = IsoFormat(today)]

\* a variant answer also flagged correct, on a practised word that is not due today
C4_Witness ==
    /\ ScoredVariantOrSynonym
    /\ ret.is_correct
    /\ ret.word.progress = 40
    /\ ret.word.next_training_date # IsoFormat(today)
    /\ ret.word.last_training_date # IsoFormat(today)
    /\ StoredRow.progress = 40

----------------------------------------------------------------------------
(* Properties of the due-word selection (SpecSelect, SpecStart) *)

Selected == ret.op = "get_words_for_training"

SelOverdue == OverdueWords(ret.user_id, ret.language)
SelOther == OtherWords(ret.user_id, ret.language)

\* C5: the returned list contains no word pair twice.
C5_NoDuplicates ==
    Selected =>
        \A i, j \in 1..Len(ret.words) :
            i # j => ret.words[i].word_id # ret.words[j].word_id

\* C6: the returned list has at most `limit` word pairs.
C6_AtMostLimit ==
    Selected => Len(ret.words) <= ret.limit

\* fewer overdue words than asked for, the fill pool is not empty, and the
\* list came back full
C6_Witness ==
    /\ Selected
    /\ SelOverdue # {}
    /\ Cardinality(SelOverdue) < ret.limit
    /\ SelOther # {}
    /\ Len(ret.words) = ret.limit

\* C8: with at least `limit` overdue words every returned word is overdue;
\* otherwise the list starts with all the overdue words and at most
\* limit - |Overdue| further places follow, filled from the pool of words
\* whose due date is not today.
C8_PrefersOverdue ==
    Selected =>
        LET n == Cardinality(SelOverdue)
        IN  IF n >= ret.limit
            THEN Range(ret.words) \subseteq SelOverdue
            ELSE /\ Len(ret.words) >= n
                 /\ {ret.words[i] : i \in 1..n} = SelOverdue
                 /\ Len(ret.words) - n <= ret.limit - n
                 /\ {ret.words[i] : i \in (n + 1)..Len(ret.words)} \subseteq SelOther

\* one overdue word and one word due later: limit 1 returns the overdue one
C8_Witness ==
    /\ Selected
    /\ ret.limit = 1
    /\ Cardinality(SelOverdue) = 1
    /\ Cardinality(AllWords(ret.user_id, ret.language)) = 2
    /\ Range(ret.words) = SelOverdue

\* the call just made was start_training_session with a valid size, and it returned
Started ==
    /\ ret.op = "start_training_session"
    /\ ret.session_limit \in TRAINING_SESSION_LIMITS
    /\ "success" \in DOMAIN ret

\* the word pairs the user has for the requested language
PairsOfRequest ==
    {i \in 1..Len(word_pairs) :
        /\ word_pairs[i].user_id = ret.user_id
        /\ word_pairs[i].language = ret.language}

\* C7: for a valid session size, start_training_session fails with
\* "No words available for training" exactly when the user has no word pair
\* for the requested language; with at least one pair, overdue or not, the
\* selection stored for the session is not empty.
C7_NoWordsIffNoPairs ==
    Started =>
        /\ (~ret.success /\ ret.error = "No words available for training")
              <=> PairsOfRequest = {}
        /\ PairsOfRequest # {} =>
              \E id \in DOMAIN training_sessions :
                 /\ training_sessions[id].user_id = ret.user_id
                 /\ training_sessions[id].language = ret.language
                 /\ training_sessions[id].words # <<>>

\* a session started on words none of which is overdue
C7_Witness ==
    /\ Started
    /\ ret.success
    /\ PairsOfRequest # {}
    /\ \A i \in PairsOfRequest : FromIsoFormat(word_pairs[i].next_training_date) > today

----------------------------------------------------------------------------
(* Properties of the training session (SpecSession) *)

SessionOf(id) == training_sessions[id]

\* C9: start hands out the task of w[0] as task 0, every successful advance
\* hands out the task of the next word, the task numbered i being the task
\* of w[i], and no advance succeeds once the N tasks have been handed out.
C9_EachWordOnce ==
    /\ (ret.op = "start_training_session" /\ "success" \in DOMAIN ret /\ ret.success) =>
          /\ ret.current_task_index = 0
          /\ ret.current_task.word_id = SessionOf(ret.session_id).words[1].word_id
    /\ (ret.op = "get_next_task" /\ "success" \in DOMAIN ret /\ ret.success) =>
          /\ ret.current_task_index < ret.total_tasks
          /\ ret.current_task.word_id =
                SessionOf(ret.session_id).words[ret.current_task_index + 1].word_id

\* C10, the bounds: the position of every session is within 0..number of words
IndexInBounds ==
    \A id \in DOMAIN training_sessions :
        /\ 0 <= SessionOf(id).current_word_index
        /\ SessionOf(id).current_word_index <= Len(SessionOf(id).words)

\* C10, the order: a step leaves a session alone, moves its position forward,
\* or (a start under the same id) replaces it by a new session at position 0
IndexNeverDecreases ==
    \A id \in DOMAIN training_sessions :
        /\ id \in DOMAIN training_sessions'
        /\ \/ training_sessions'[id].current_word_index
                >= training_sessions[id].current_word_index
           \/ /\ ret'.op = "start_training_session"
              /\ training_sessions'[id].current_word_index = 0
              /\ training_sessions'[id].pre_generated_task = None

AdvancedNow(id) ==
    /\ ret'.op = "get_next_task"
    /\ ret'.session_id = id
    /\ "success" \in DOMAIN ret'
    /\ ret'.success

\* C11: an advance made while the prefetch slot holds a task returns that
\* task, and afterwards the slot no longer holds it: the slot is empty or
\* holds a task prepared for the word at the new position.
C11_SlotConsumedOnce ==
    [][\A id \in DOMAIN training_sessions :
          (AdvancedNow(id) /\ SessionOf(id).pre_generated_task # None) =>
              /\ ret'.current_task = SessionOf(id).pre_generated_task
              /\ LET after == training_sessions'[id]
                 IN  \/ after.pre_generated_task = None
                     \/ /\ after.current_word_index < Len(after.words)
                        /\ after.pre_generated_task.word_id =
                              after.words[after.current_word_index + 1].word_id]_vars

\* C12: what an advance serves depends on the word list and the position
\* alone, never on the prefetch slot: a successful advance from position i
\* returns a task of words[i] and leaves the session at i + 1, whatever the
\* slot holds, and a prefetch step leaves word list and position of every
\* session as they were. So the served word ids and the positions are the
\* same with prefetch calls interleaved or without them.
C12_PrefetchTransparent ==
    [][\A id \in DOMAIN training_sessions :
          /\ AdvancedNow(id) =>
                /\ ret'.current_task.word_id =
                      SessionOf(id).words[SessionOf(id).current_word_index + 1].word_id
                /\ ret'.current_task_index = SessionOf(id).current_word_index + 1
                /\ training_sessions'[id].current_word_index =
                      SessionOf(id).current_word_index + 1
                /\ training_sessions'[id].words = SessionOf(id).words
          /\ ret'.op = "prepare_next_task_in_background" =>
                /\ id \in DOMAIN training_sessions'
                /\ training_sessions'[id].current_word_index =
                      SessionOf(id).current_word_index
                /\ training_sessions'[id].words = SessionOf(id).words]_vars

\* the first advance of a session over two different words was made with the
\* slot filled by a prefetch call: the slot holds a task of the first word
C12_Witness ==
    /\ ret.op = "get_next_task"
    /\ "success" \in DOMAIN ret
    /\ ret.success
    /\ LET session_data == SessionOf(ret.session_id)
       IN  /\ session_data.current_word_index = 1
           /\ Len(session_data.words) >= 2
           /\ session_data.words[1].word_id # session_data.words[2].word_id
           /\ session_data.pre_generated_task # None
           /\ session_data.pre_generated_task.word_id = session_data.words[1].word_id

----------------------------------------------------------------------------
(* Properties of the scoring of one answer (SpecAnswer) *)

\* submit_answer has just returned a result for an existing word
Answered == ret.op = "submit_answer" /\ ret.success

\* the flags of the result that are set
FlagsSet ==
    {f \in {"is_correct", "is_morphological_error", "is_synonym"} : ret[f]}

IsCorrect == FlagsSet = {"is_correct"}
IsVariant == FlagsSet = {"is_morphological_error"}
IsSynonym == FlagsSet = {"is_synonym"}
IsIncorrect == FlagsSet = {}

\* every Oracle call of the submission failed
OracleDown ==
    \A k \in DOMAIN ret.analysis.oracle : ret.analysis.oracle[k] = Raised

\* the two texts after lowercasing and trimming
AnswerClean == Strip(Lower(ret.analysis.user_answer))
TargetClean == Strip(Lower(ret.analysis.target_word))

\* C14: with every Oracle call failing, submit_answer returns for every task
\* type a result with exactly one classification, and an answer equal to the
\* target word after lowercase/trim is classified Correct.
C14_OracleDownStillScores ==
    (ret.op = "submit_answer" /\ "analysis" \in DOMAIN ret /\ OracleDown) =>
        /\ Answered
        /\ Cardinality(FlagsSet) <= 1
        /\ AnswerClean = TargetClean => IsCorrect

\* C15: the result of every analysis, for every task type and every Oracle
\* response, has at most one of is_correct, is_morphological_error,
\* is_synonym set.
C15_OneClassification ==
    Answered =>
        /\ Cardinality(FlagsSet) <= 1
        /\ ret.is_correct = ret.analysis.is_correct
        /\ ret.is_morphological_error = ret.analysis.is_morphological_error
        /\ ret.is_synonym = ret.analysis.is_synonym

\* a fill-in answer the Oracle rated 8 with the tag written "Synonym"
C15_Witness ==
    /\ Answered
    /\ ret.analysis.task_type = "fill"
    /\ ret.analysis.oracle.fill = [score |-> [number |-> 8], type |-> [tag |-> "Synonym"]]
    /\ IsSynonym

\* C17: for every task type and whatever the Oracle answers, an answer equal
\* to the target word after lowercasing and trimming is classified Correct.
C17_ExactMatchIsCorrect ==
    (Answered /\ AnswerClean = TargetClean) => IsCorrect

C19_FillBlankVerdict ==
    (/\ Answered
     /\ ret.analysis.task_type = "fill"
     /\ ret.analysis.oracle.fill # Raised
     /\ ret.analysis.oracle.fill.score \in {[number |-> n] : n \in 1..10}
     /\ ret.analysis.oracle.fill.type \in
           {[tag |-> t] : t \in {"exact", "synonym", "morphological", "wrong"}}) =>
        LET s == ret.analysis.oracle.fill.score.number
            t == ret.analysis.oracle.fill.type.tag
        IN  IF s >= 9 THEN IsCorrect
            ELSE IF s >= 7 /\ t = "synonym" THEN IsSynonym
            ELSE IF s >= 7 /\ t = "morphological" THEN IsVariant
            ELSE IF s >= 6 THEN IsVariant
            ELSE IsIncorrect

\* score 6 with the tag synonym: below the synonym threshold, a variant
C19_Witness ==
    /\ Answered
    /\ ret.analysis.task_type = "fill"
    /\ ret.analysis.oracle.fill = [score |-> [number |-> 6], type |-> [tag |-> "synonym"]]
    /\ IsVariant

\* C20: on the lexical fallback path (multiple_choice tasks, and any task
\* whose Oracle calls failed) an answer that is not an exact match is
\* MorphologicalVariant when the normalized answer is a substring of the
\* normalized target word or the reverse, and Incorrect otherwise.
C20_LexicalFallback ==
    (/\ Answered
     /\ ret.analysis.task_type = "mc" \/ OracleDown
     /\ AnswerClean # TargetClean) =>
        IF Contains(TargetClean, AnswerClean) \/ Contains(AnswerClean, TargetClean)
        THEN IsVariant
        ELSE IsIncorrect

----------------------------------------------------------------------------
(* Properties of the import (SpecImport) *)

\* two rows hold the same pair for the same user and language, letter case
\* and surrounding blanks aside
SamePair(r1, r2) ==
    /\ r1.user_id = r2.user_id
    /\ r1.language = r2.language
    /\ Lower(Strip(r1.native_word)) = Lower(Strip(r2.native_word))
    /\ Lower(Strip(r1.target_word)) = Lower(Strip(r2.target_word))

\* C16: the word store never holds two pairs of one user and language whose
\* native and target texts are equal case-insensitively: import_word_pairs
\* counts such a pair as a duplicate and does not insert it.
C16_NoDuplicatePairs ==
    \A i, j \in 1..Len(word_pairs) :
        i # j => ~SamePair(word_pairs[i], word_pairs[j])

----------------------------------------------------------------------------
(* Further properties of the progress update (SpecProgress) *)

\* C29: after an answer scored Correct the word's next training date is
\* strictly later than today, so the word is not in today's overdue set.
C29_CorrectLeavesOverdue ==
    ScoredCorrect =>
        /\ StoredRow.progress >= 20
        /\ FromIsoFormat(StoredRow.next_training_date) >= today + 1
        /\ \A w \in OverdueWords(StoredRow.user_id, StoredRow.language) :
              w.word_id # ret.word_id

\* a new word (progress 0, due today) was answered correctly: due tomorrow
C29_Witness ==
    /\ ScoredCorrect
    /\ ret.word.progress = 0
    /\ FromIsoFormat(ret.word.next_training_date) <= today
    /\ FromIsoFormat(StoredRow.next_training_date) = today + 1

\* C30: the stored progress of an imported word is always one of 0, 20, 40,
\* 60, 80, 100, so the interval table and the task probability table each
\* have a bracket for it and neither default is used.
C30_ProgressOnGrid ==
    \A i \in 1..Len(word_pairs) :
        /\ word_pairs[i].progress \in {0, 20, 40, 60, 80, 100}
        /\ IntervalBrackets(word_pairs[i].progress) # {}
        /\ ProbabilityBrackets(word_pairs[i].progress) # {}

\* an Incorrect answer on a word at 20 has been stored: 20 - 40 clamps to 0
C30_Witness ==
    /\ ScoredIncorrect
    /\ ret.word.progress = 20
    /\ StoredRow.progress = 0

----------------------------------------------------------------------------
(* Properties of the retry loop (SpecRetry) *)

Retrying == ret.op = "_execute_with_retry"

\* what operation() ended with at the latest attempt
LastOutcome == ret.outcomes[Len(ret.outcomes)]

\* every attempt before the latest one ended with a network error
EarlierAllNetwork ==
    \A i \in 1..(Len(ret.outcomes) - 1) : ret.outcomes[i] \in NetworkErrors

\* C25: an operation run through _execute_with_retry is attempted at most 3
\* times; an attempt is repeated only after a network error; the first
\* response is returned; another exception is raised at once; the third
\* network error in a row raises a failure to the caller.
C25_RetryLoop ==
    Retrying =>
        /\ Len(ret.outcomes) <= 3
        /\ EarlierAllNetwork
        /\ ret.status = "running" =>
              /\ Len(ret.outcomes) < 3
              /\ \A i \in 1..Len(ret.outcomes) : ret.outcomes[i] \in NetworkErrors
        /\ ret.status # "running" =>
              /\ Len(ret.outcomes) >= 1
              /\ IF "data" \in DOMAIN LastOutcome
                 THEN ret.status = "returned" /\ ret.result = LastOutcome
                 ELSE IF LastOutcome \in NetworkErrors
                 THEN /\ Len(ret.outcomes) = 3
                      /\ ret.status = "raised"
                      /\ ret.result.exception = "Exception"
                 ELSE ret.status = "raised" /\ ret.result = LastOutcome

\* three network errors in a row have ended in a failure raised to the caller
C25_Witness ==
    /\ Retrying
    /\ ret.status = "raised"
    /\ Len(ret.outcomes) = 3
    /\ \A i \in 1..3 : ret.outcomes[i] \in NetworkErrors
    /\ ret.result.exception = "Exception"

----------------------------------------------------------------------------
(* Properties of sentence generation (SpecGenerate) *)

Generated == ret.op = "generate_sentence"

\* a reply passes the verification: it has a content which, without its
\* surrounding blanks and quotes, is not empty and contains the main part of
\* the target word, letter case aside
Passes(reply, target_word) ==
    /\ reply # Raised
    /\ Strip(reply.content) # <<>>
    /\ Contains(Lower(CleanSentence(Strip(reply.content))), Lower(MainWord(target_word)))

\* C23: one generate_sentence call makes at most 2 requests, returns the
\* first reply that passes the target-word verification, and returns no
\* sentence when both attempts fail by exception, empty output or failed
\* verification.
C23_TwoAttempts ==
    Generated =>
        /\ ret.requests \in 1..2
        /\ Len(ret.replies) = ret.requests
        /\ \A k \in 1..(ret.requests - 1) : ~Passes(ret.replies[k], ret.target_word)
        /\ IF Passes(ret.replies[ret.requests], ret.target_word)
           THEN ret.sentence =
                    [text |-> CleanSentence(Strip(ret.replies[ret.requests].content))]
           ELSE ret.requests = 2 /\ ret.sentence = None

\* the first request raised and the second reply, wrapped in quotes and with
\* a capital, passed the verification
C23_Witness ==
    /\ Generated
    /\ ret.requests = 2
    /\ ret.replies[1] = Raised
    /\ ret.target_word = <<"a">>
    /\ ret.replies[2] = [content |-> <<"'", "A">>]
    /\ ret.sentence = [text |-> <<"A">>]

----------------------------------------------------------------------------
(* Properties of task construction (SpecTask) *)

\* _create_task_for_word has just been called
Constructed == ret.op = "_create_task_for_word"

\* the Oracle failed on every call of the construction and the Store answered
OracleFailing == Constructed /\ ret.oracle = "down" /\ ret.store = "ok"

\* the task asks for the bare translation of the word
BareTranslation(task, word) ==
    /\ task.task_id = <<"trans", word.word_id>>
    /\ task.task_type = "translation"
    /\ task.instruction.phrase = "translate_word_instruction"
    /\ task.instruction.word = word.native_word
    /\ task.sentence = [translate_word |-> word.native_word]

\* the words of the static option lists
StaticOptions(language) ==
    Range(GenericOptions(language)) \cup {Wichtig, Bedeutsam, Important, Significant}

\* C21: with the Oracle failing on every call, task construction yields a
\* task for every word and every drawn task type, one that start_session
\* accepts: the bare translation instruction for translation and for
\* fill_blank, and for multiple_choice a choice without sentence whose wrong
\* options come from the static lists.
C21_TaskWithoutOracle ==
    OracleFailing =>
        /\ IsTask(ret.task)
        /\ TaskHead(ret.task) \in CreateTaskForWord(ret.word)
        /\ ret.task_type \in {"translation", "fill_blank"} =>
              BareTranslation(ret.task, ret.word)
        /\ ret.task_type = "multiple_choice" =>
              /\ ret.task.task_type = "multiple_choice"
              /\ "sentence" \notin DOMAIN ret.task
              /\ Range(ret.task.options) \subseteq
                     {ret.word.target_word} \cup StaticOptions(ret.language)

\* a fill_blank construction without the Oracle has given a translation task
C21_Witness ==
    /\ OracleFailing
    /\ ret.task_type = "fill_blank"
    /\ IsTask(ret.task)
    /\ ret.task.task_type = "translation"

\* the construction of a multiple_choice task has run to its end
ChoiceBuilt ==
    /\ Constructed
    /\ ret.store = "ok"
    /\ ret.task_type = "multiple_choice"

\* C22: every multiple_choice task has exactly 3 pairwise distinct options,
\* exactly one of them the target word, and correct_index is the position of
\* the target word in the shuffled list.
C22_ThreeDistinctOptions ==
    ChoiceBuilt =>
        /\ IsTask(ret.task)
        /\ Len(ret.task.options) = 3
        /\ \A i, j \in 1..3 : i # j => ret.task.options[i] # ret.task.options[j]
        /\ Cardinality({i \in 1..3 : ret.task.options[i] = ret.word.target_word}) = 1
        /\ ret.task.correct_index \in 0..2
        /\ ret.task.options[ret.task.correct_index + 1] = ret.word.target_word

\* with a sentence for context, the first reply named one word twice, the
\* second reply named it again, and the shuffle put the target word last
C22_Witness ==
    /\ ChoiceBuilt
    /\ IsTask(ret.task)
    /\ "sentence" \in DOMAIN ret.task
    /\ ret.incorrect_options = [list |-> << <<"b">>, <<"b">> >>]
    /\ ret.additional_options = [list |-> << <<"b">> >>]
    /\ ret.task.correct_index = 2

----------------------------------------------------------------------------
(* Error records and scored answers (SpecAnswer) *)

\* C26: submit_answer creates or increments an error record only when the
\* outcome is Incorrect: a step that returns Correct, MorphologicalVariant or
\* SynonymAccepted leaves the error records as they were.
C26_ErrorsOnlyWhenIncorrect ==
    [][(Answered /\ ~IsIncorrect)' => errors' = errors]_vars

----------------------------------------------------------------------------
(* Failing calls (SpecRequests, SpecSession) *)

\* the call just made was refused by a validation
Refused ==
    /\ ret.op \in {"start_training_session", "get_next_task", "submit_answer"}
    /\ "error" \in DOMAIN ret
    /\ ret.error \in {"Invalid session limit", "Session not found", "Word not found"}

\* the call just made had an argument that a validation refuses: a session
\* size that is not offered, a session id that was not stored before the
\* call, a word id that none of the user's words has
InvalidSize ==
    ret.op = "start_training_session" /\ ret.session_limit \notin {1, 3, 5, 10, 20}

UnknownSession(stored) ==
    ret.op = "get_next_task" /\ ret.session_id \notin DOMAIN stored

NotOwned ==
    /\ ret.op = "submit_answer"
    /\ \A i \in 1..Len(word_pairs) :
          word_pairs[i].word_id = ret.task_id[2] => word_pairs[i].user_id # ret.user_id

\* C24: a call refused by a validation returns a failure with a reason and
\* changes nothing, and the validations refuse these calls: start with a size
\* outside {1, 3, 5, 10, 20} creates no session, advance on an unknown session
\* id changes no session, and submit_answer for a word id the user does not
\* own changes no word and no error record.
C24_RefusedChangesNothing ==
    [][/\ Refused' =>
             /\ ret'.success = FALSE
             /\ UNCHANGED <<word_pairs, errors, training_sessions>>
       /\ (InvalidSize \/ UnknownSession(training_sessions) \/ NotOwned)' =>
             /\ Refused'
             /\ ret'.error = (CASE ret'.op = "start_training_session" -> "Invalid session limit"
                                [] ret'.op = "get_next_task" -> "Session not found"
                                [] ret'.op = "submit_answer" -> "Word not found")]_vars

\* an answer for the word of another user has been refused
C24_Witness ==
    /\ Refused
    /\ ret.op = "submit_answer"
    /\ \E i \in 1..Len(word_pairs) :
          /\ word_pairs[i].word_id = ret.task_id[2]
          /\ word_pairs[i].user_id # ret.user_id

\* the call just made failed to construct its task
ConstructionFailed ==
    /\ ret.op \in {"start_training_session", "get_next_task"}
    /\ "error" \in DOMAIN ret
    /\ ret.error \in {"Failed to create first task", "Failed to create next task"}

\* C27: a call that fails to construct its task leaves the session store as
\* it was before the call: no session is stored by the failed start and the
\* position of the session is not moved by the failed advance.
C27_FailedConstructionKeepsSessions ==
    [][ConstructionFailed' => training_sessions' = training_sessions]_vars

\* the result of the last call is a scored answer to this task
ScoredTask(task_id) ==
    ret.op = "submit_answer" /\ ret.success /\ ret.task_id = task_id

\* C28: the progress update of a task is applied at most once: once
\* submit_answer has scored a task of a session, another submit_answer with
\* the same task id in that session leaves the word's progress and next
\* training date as they are.
C28_ScoredOnce ==
    [][\A p \in TaskPrefixes, w \in 1..MaxRows :
          ScoredTask(<<p, w>>) /\ ScoredTask(<<p, w>>)' =>
             \A i \in 1..Len(word_pairs) :
                /\ word_pairs'[i].progress = word_pairs[i].progress
                /\ word_pairs'[i].next_training_date = word_pairs[i].next_training_date]_vars

====
